---- MODULE Spec2Model ----
(***************************************************************************)
(* RoamRelic: the resilient place-discovery pipeline of                     *)
(* src/services/googlePlacesApi.ts (first variant, lines 1-438).            *)
(*                                                                          *)
(* Text is a sequence of one-character strings, so that toLowerCase and     *)
(* includes are computed as the code computes them.  A code point outside   *)
(* ASCII is written as one element named after it ("U+0131").  An optional  *)
(* field of a JSON object is a sequence of length 0 (absent) or 1.          *)
(* Coordinates are integers in units of 1/CoordScale degree.                *)
(***************************************************************************)
EXTENDS Integers, Sequences, FiniteSets, TLC

VARIABLES
    \* ---- one discovery call (fetchHistoricPlacesWithCORS) ----
    pc,          \* "idle" | "fetch" (await fetch) | "json" (await response.json()) | "done"
    apiKey,      \* process.env.REACT_APP_GOOGLE_PLACES_API_KEY ("" when not configured)
    latitude,    \* the requested anchor
    longitude,
    i,           \* loop index into corsProxies, 0-based as in the code
    requests,    \* the proxy indices fetch() was called with, in call order
    outcomes,    \* how each attempted path ended, in order
    response,    \* the body delivered to the request of path i (NoBody before)
    settled,     \* "pending" | "resolved" | "rejected": the returned promise
    result,      \* what the promise settled with: None, or Some(list)
    source,      \* the return statement taken: "none" | "nokey" | "path" | "exhausted"
    logs,        \* the console events the call emitted, in order
    \* ---- filterHistoricPlaces applied to a list ----
    places,      \* the input list
    kept,        \* the filtered list
    keptBefore,  \* the filtered list before a case change of the input
    recase,      \* the case change applied to the input, <<op, field>>
    fpc,         \* "input" | "filtered" | "recased"
    \* ---- calculateDistance / the distance label ----
    pA, pB,      \* two coordinates
    meters,      \* a distance in meters
    dAB, dBA,    \* calculateDistance(pA, pB), calculateDistance(pB, pA)
    label,       \* the rendered distance label
    gpc,         \* "input" | "measured" | "formatted"
    \* ---- convertGooglePlaceToLocation applied to a candidate ----
    candidate,   \* the provider candidate
    converted,   \* its Location: None, or Some(location)
    twin,        \* the same candidate with other rating/status/photo fields
    convertedTwin, \* the Location of the twin
    cpc,         \* "input" | "converted" | "compared" | "seed"
    \* ---- getFallbackHistoricPlaces called a number of times ----
    seedCalls,   \* the anchors it was called with, in call order
    seeds,       \* the lists it returned, in call order
    \* ---- two discovery calls in flight ----
    current,     \* the call whose code runs: 1 or 2 (callVars are its variables)
    parked,      \* the parameters and locals of the call that is not running
    provider,    \* what each proxy path answers with, for both calls
    \* ---- HomeScreen: the location hook and the loading of places ----
    hpc,         \* "init" | "mounted"
    userLocation, \* None, or Some(position): the state `location` of useUserLocation
    loading,     \* the state `loading` of useUserLocation
    loadingPlaces, \* the state `loadingPlaces`
    historicPlacesState, \* the state `historicPlaces`
    loads,       \* the invocations of loadHistoricPlaces, in call order
    shown        \* the invocation that set historicPlacesState last (0: none)

vars == <<pc, apiKey, latitude, longitude, i, requests, outcomes, response,
          settled, result, source, logs, places, kept, keptBefore, recase, fpc,
          pA, pB, meters, dAB, dBA, label, gpc,
          candidate, converted, twin, convertedTwin, cpc, seedCalls, seeds,
          current, parked, provider,
          hpc, userLocation, loading, loadingPlaces, historicPlacesState, loads, shown>>

callVars == <<pc, apiKey, latitude, longitude, i, requests, outcomes, response,
              settled, result, source, logs>>
filterVars == <<places, kept, keptBefore, recase, fpc>>
geoVars == <<pA, pB, meters, dAB, dBA, label, gpc>>
convVars == <<candidate, converted, twin, convertedTwin, cpc>>
seedVars == <<seedCalls, seeds>>
twoVars == <<current, parked, provider>>
homeVars == <<hpc, userLocation, loading, loadingPlaces, historicPlacesState, loads, shown>>

(***************************************************************************)
(* Optional values and text                                                 *)
(***************************************************************************)
None == <<>>
Some(v) == <<v>>
IsSome(o) == Len(o) > 0
Get(o) == o[1]

UpperAlpha == <<"A","B","C","D","E","F","G","H","I","J","K","L","M",
                "N","O","P","Q","R","S","T","U","V","W","X","Y","Z">>
LowerAlpha == <<"a","b","c","d","e","f","g","h","i","j","k","l","m",
                "n","o","p","q","r","s","t","u","v","w","x","y","z">>

\* String.prototype.toLowerCase on one code point.  U+212A (KELVIN SIGN)
\* lower-cases to "k"; U+0131 (dotless i) and U+017F (long s) are lower case
\* already and are left alone.
toLowerChar(ch) ==
    IF \E k \in 1..Len(UpperAlpha) : UpperAlpha[k] = ch
    THEN LowerAlpha[CHOOSE k \in 1..Len(UpperAlpha) : UpperAlpha[k] = ch]
    ELSE IF ch = "U+212A" THEN "k" ELSE ch

toLowerCase(s) == [k \in 1..Len(s) |-> toLowerChar(s[k])]

\* String.prototype.includes
includes(s, sub) ==
    \E k \in 0..(Len(s) - Len(sub)) : SubSeq(s, k + 1, k + Len(sub)) = sub

\* Array.prototype.includes on an array of tags
arrayIncludes(arr, x) == \E k \in 1..Len(arr) : arr[k] = x

(***************************************************************************)
(* filterHistoricPlaces                                                     *)
(***************************************************************************)
historicTypes ==
    <<"tourist_attraction", "museum", "place_of_worship", "establishment",
      "point_of_interest">>

historicKeywords ==
    << <<"t","e","m","p","l","e">>,
       <<"f","o","r","t">>,
       <<"p","a","l","a","c","e">>,
       <<"m","o","n","u","m","e","n","t">>,
       <<"h","e","r","i","t","a","g","e">>,
       <<"h","i","s","t","o","r","i","c">>,
       <<"a","r","c","h","a","e","o","l","o","g","i","c","a","l">>,
       <<"a","n","c","i","e","n","t">>,
       <<"c","u","l","t","u","r","a","l">>,
       <<"t","o","m","b">>,
       <<"m","o","s","q","u","e">>,
       <<"c","h","u","r","c","h">>,
       <<"c","a","s","t","l","e">>,
       <<"c","a","t","h","e","d","r","a","l">>,
       <<"s","h","r","i","n","e">>,
       <<"m","e","m","o","r","i","a","l">> >>

\* `place.vicinity && ...`: an absent or empty vicinity is falsy
Truthy(o) == IsSome(o) /\ Len(Get(o)) > 0

\* place.types.some(type => historicTypes.includes(type))
hasHistoricType(place) ==
    \E k \in 1..Len(Get(place.types)) : arrayIncludes(historicTypes, Get(place.types)[k])

\* Mutant: the keyword test also reads formatted_address.
hasHistoricKeyword_address(place) ==
    \E k \in 1..Len(historicKeywords) :
        \/ includes(toLowerCase(place.name), historicKeywords[k])
        \/ (Truthy(place.vicinity)
            /\ includes(toLowerCase(Get(place.vicinity)), historicKeywords[k]))
        \/ (Truthy(place.formatted_address)
            /\ includes(toLowerCase(Get(place.formatted_address)), historicKeywords[k]))

\* Mutant: the name is matched without lower-casing it.
hasHistoricKeyword_caseSensitive(place) ==
    \E k \in 1..Len(historicKeywords) :
        \/ includes(place.name, historicKeywords[k])
        \/ (Truthy(place.vicinity)
            /\ includes(toLowerCase(Get(place.vicinity)), historicKeywords[k]))

\* historicKeywords.some(keyword => name.toLowerCase().includes(keyword) ||
\*                                  (vicinity && vicinity.toLowerCase().includes(keyword)))
hasHistoricKeyword(place) ==
    \E k \in 1..Len(historicKeywords) :
        \/ includes(toLowerCase(place.name), historicKeywords[k])
        \/ (Truthy(place.vicinity)
            /\ includes(toLowerCase(Get(place.vicinity)), historicKeywords[k]))

\* the predicate of places.filter(...)
isHistoric(place) == hasHistoricType(place) \/ hasHistoricKeyword(place)

\* place.types.some on a candidate without types (or places.filter on a
\* missing results array) throws a TypeError
filterThrows(results) ==
    \/ ~IsSome(results)
    \/ \E k \in 1..Len(Get(results)) : ~IsSome(Get(results)[k].types)

filterHistoricPlaces(list) == SelectSeq(list, isHistoric)

(***************************************************************************)
(* The distance label of convertGooglePlaceToLocation (line 131):           *)
(*   distance > 1000 ? `${(distance / 1000).toFixed(1)}km` : `${distance}m` *)
(***************************************************************************)
\* the number NaN, as a distance in meters
NaN == 0 - 1

RECURSIVE Pow2(_)
Pow2(n) == IF n = 0 THEN 1 ELSE 2 * Pow2(n - 1)

RECURSIVE Pow2Mod1000(_)
Pow2Mod1000(n) == IF n = 0 THEN 1 ELSE (2 * Pow2Mod1000(n - 1)) % 1000

\* the binary exponent of the double distance / 1000, for distance >= 1000
RECURSIVE BinaryExponent(_, _)
BinaryExponent(d, e) ==
    IF 1000 * Pow2(e + 1) <= d THEN BinaryExponent(d, e + 1) ELSE e

\* distance / 1000 is the double nearest to the quotient.  Its 53-bit
\* significand is the quotient scaled by 2^(52 - e) and rounded; the part
\* rounded away, in thousandths, tells on which side of the exact quotient
\* the double lies: 0 exact, below 500 the double is smaller, above 500 larger
\* (500 itself cannot occur: the scaled numerator is a multiple of 8).
QuotientError(d) ==
    LET rem == ((d % 1000) * Pow2Mod1000(52 - BinaryExponent(d, 0))) % 1000
    IN  IF rem = 0 THEN "exact" ELSE IF rem < 500 THEN "below" ELSE "above"

\* Number.prototype.toFixed(1) of the double distance / 1000, in tenths:
\* the integer n with n / 10 nearest to the double, the larger n on a tie
toFixed1(d) ==
    LET q == d \div 100
        r == d % 100
    IN  IF r < 50 THEN q
        ELSE IF r > 50 THEN q + 1
        ELSE IF QuotientError(d) = "below" THEN q ELSE q + 1

\* Mutant: the kilometer form starts at 1000 m.
formatDistance_from1000(distance) ==
    IF distance = NaN THEN "NaNm"
    ELSE IF distance >= 1000
    THEN ToString(toFixed1(distance) \div 10) \o "." \o ToString(toFixed1(distance) % 10) \o "km"
    ELSE ToString(distance) \o "m"

\* Mutant: the kilometer form is rendered without a fractional digit.
formatDistance_wholeKm(distance) ==
    IF distance = NaN THEN "NaNm"
    ELSE IF distance > 1000
    THEN ToString((toFixed1(distance) + 5) \div 10) \o "km"
    ELSE ToString(distance) \o "m"

formatDistance(distance) ==
    IF distance = NaN THEN "NaNm"      \* NaN > 1000 is false
    ELSE IF distance > 1000
    THEN ToString(toFixed1(distance) \div 10) \o "." \o ToString(toFixed1(distance) % 10) \o "km"
    ELSE ToString(distance) \o "m"

(***************************************************************************)
(* Floating-point arithmetic.  A JavaScript number that calculateDistance   *)
(* computes with is modelled as a decimal float m * 10^e whose significand  *)
(* m has four digits (1000 <= |m| <= 9999, or m = 0); every operation       *)
(* rounds its result to that format, as the double operations round to 53   *)
(* bits.  Math.sin, Math.cos, Math.sqrt and Math.atan2 are computed in the  *)
(* same arithmetic.                                                         *)
(***************************************************************************)
Abs(n) == IF n < 0 THEN -n ELSE n
Sign(n) == IF n < 0 THEN -1 ELSE 1

RECURSIVE Pow10(_)
Pow10(n) == IF n = 0 THEN 1 ELSE 10 * Pow10(n - 1)

Zero == [m |-> 0, e |-> 0]

RECURSIVE Norm(_, _)
Norm(m, e) ==
    IF m = 0 THEN Zero
    ELSE IF Abs(m) >= 10000 THEN Norm(Sign(m) * ((Abs(m) + 5) \div 10), e + 1)
    ELSE IF Abs(m) < 1000 THEN Norm(m * 10, e - 1)
    ELSE [m |-> m, e |-> e]

F(n) == Norm(n, 0)
FNeg(x) == [m |-> -x.m, e |-> x.e]
FMul(x, y) == Norm(x.m * y.m, x.e + y.e)
FDiv(x, y) ==
    Norm(Sign(x.m) * Sign(y.m) * ((Abs(x.m) * 100000) \div Abs(y.m)), x.e - y.e - 5)
FAdd(x, y) ==
    IF x.m = 0 THEN y
    ELSE IF y.m = 0 THEN x
    ELSE LET hi == IF x.e >= y.e THEN x ELSE y
             lo == IF x.e >= y.e THEN y ELSE x
         IN  IF hi.e - lo.e > 5 THEN hi
             ELSE Norm(hi.m * Pow10(hi.e - lo.e) + lo.m, lo.e)
FSub(x, y) == FAdd(x, FNeg(y))
FLess(x, y) == FSub(x, y).m < 0

RECURSIVE ISqrt(_, _, _)
ISqrt(n, lo, hi) ==
    IF lo >= hi THEN lo
    ELSE LET mid == (lo + hi + 1) \div 2
         IN  IF mid * mid <= n THEN ISqrt(n, mid, hi) ELSE ISqrt(n, lo, mid - 1)

\* Math.sqrt of a number >= 0
FSqrt(x) ==
    IF x.m = 0 THEN Zero
    ELSE LET m2 == IF x.e % 2 = 0 THEN x.m ELSE x.m * 10
             e2 == IF x.e % 2 = 0 THEN x.e ELSE x.e - 1
         IN  Norm(ISqrt(m2 * 10000, 0, 31622), (e2 - 4) \div 2)

\* the series  term - term x^2/((k+1)(k+2)) + ...  summed over n more terms
RECURSIVE Series(_, _, _, _, _)
Series(x2, term, k, acc, n) ==
    IF n = 0 THEN acc
    ELSE LET next == FNeg(FDiv(FMul(term, x2), F((k + 1) * (k + 2))))
         IN  Series(x2, next, k + 2, FAdd(acc, next), n - 1)

PI == [m |-> 3142, e |-> -3]
HalfPI == [m |-> 1571, e |-> -3]
One == F(1)

\* Math.sin and Math.cos on [-PI, PI]
FSin(x) == Series(FMul(x, x), x, 1, x, 12)
FCos(x) == Series(FMul(x, x), One, 0, One, 12)

\* the series  t - t^3/3 + t^5/5 - ...  for 0 <= t <= 1/4
RECURSIVE AtanSeries(_, _, _, _, _)
AtanSeries(t2, power, k, acc, n) ==
    IF n = 0 THEN acc
    ELSE LET next == FNeg(FMul(power, t2))
         IN  AtanSeries(t2, next, k + 2, FAdd(acc, FDiv(next, F(k + 2))), n - 1)

\* atan(t) = 2 atan(t / (1 + sqrt(1 + t^2)))
HalveArg(t) == FDiv(t, FAdd(One, FSqrt(FAdd(One, FMul(t, t)))))

\* Math.atan for 0 <= t <= 1
FAtan(t) ==
    LET u == HalveArg(HalveArg(t))
    IN  FMul(F(4), AtanSeries(FMul(u, u), u, 1, u, 5))

\* Math.atan2(y, x) for y >= 0 and x >= 0, the only quadrant the square
\* roots of calculateDistance reach; atan2(0, 0) is 0
FAtan2(y, x) ==
    IF y.m = 0 THEN Zero
    ELSE IF x.m = 0 THEN HalfPI
    ELSE IF FLess(x, y) THEN FSub(HalfPI, FAtan(FDiv(x, y)))
    ELSE FAtan(FDiv(y, x))

\* Math.round of a number >= 0
FRound(x) ==
    IF x.e >= 0 THEN x.m * Pow10(x.e)
    ELSE IF -x.e > 5 THEN 0
    ELSE (x.m + Pow10(-x.e) \div 2) \div Pow10(-x.e)

(***************************************************************************)
(* calculateDistance (haversine), coordinates in 1/CoordScale degree        *)
(***************************************************************************)
CoordScale == 10 * 1000
R == 6371

\* a coordinate (or a difference of two) as a number of degrees
Degrees(n) == Norm(n, -4)

\* x * Math.PI / 180
Radians(x) == FDiv(FMul(x, PI), F(180))

\* Mutant: the second cosine is taken of lat1 again.
calculateDistance_lat1Twice(lat1, lon1, lat2, lon2) ==
    LET dLat == Radians(Degrees(lat2 - lat1))
        dLon == Radians(Degrees(lon2 - lon1))
        sLat == FSin(FDiv(dLat, F(2)))
        sLon == FSin(FDiv(dLon, F(2)))
        a == FAdd(FMul(sLat, sLat),
                  FMul(FMul(FMul(FCos(Radians(Degrees(lat1))),
                                 FCos(Radians(Degrees(lat1)))), sLon), sLon))
        c == FMul(F(2), FAtan2(FSqrt(a), FSqrt(FSub(One, a))))
        distance == FMul(FMul(F(R), c), F(1000))
    IN  IF FLess(One, a) THEN NaN ELSE FRound(distance)

\* Mutant: the latitudes are added where they are subtracted.
calculateDistance_sumLat(lat1, lon1, lat2, lon2) ==
    LET dLat == Radians(Degrees(lat2 + lat1))
        dLon == Radians(Degrees(lon2 - lon1))
        sLat == FSin(FDiv(dLat, F(2)))
        sLon == FSin(FDiv(dLon, F(2)))
        a == FAdd(FMul(sLat, sLat),
                  FMul(FMul(FMul(FCos(Radians(Degrees(lat1))),
                                 FCos(Radians(Degrees(lat2)))), sLon), sLon))
        c == FMul(F(2), FAtan2(FSqrt(a), FSqrt(FSub(One, a))))
        distance == FMul(FMul(F(R), c), F(1000))
    IN  IF FLess(One, a) THEN NaN ELSE FRound(distance)

\* lines 41-50
haversine(lat1, lon1, lat2, lon2) ==
    LET dLat == Radians(Degrees(lat2 - lat1))
        dLon == Radians(Degrees(lon2 - lon1))
        sLat == FSin(FDiv(dLat, F(2)))
        sLon == FSin(FDiv(dLon, F(2)))
        a == FAdd(FMul(sLat, sLat),
                  FMul(FMul(FMul(FCos(Radians(Degrees(lat1))),
                                 FCos(Radians(Degrees(lat2)))), sLon), sLon))
        c == FMul(F(2), FAtan2(FSqrt(a), FSqrt(FSub(One, a))))
        distance == FMul(FMul(F(R), c), F(1000))
    IN  \* Math.sqrt(1 - a) is NaN when rounding left a above 1
        IF FLess(One, a) THEN NaN ELSE FRound(distance)

\* The distances from the two anchors of the pipeline specifications to the
\* coordinates of their candidates, computed once: a definition without
\* parameters is evaluated a single time, where an operator is evaluated at
\* every use.
KnownDistances ==
    [ p \in { <<173850, 784867, 173950, 784867>>, <<173850, 784867, 173900, 784817>>,
              <<173850, 784867, 173850, 784867>>, <<0, 0, 173950, 784867>>,
              <<0, 0, 173900, 784817>>, <<0, 0, 173850, 784867>> }
        |-> haversine(p[1], p[2], p[3], p[4]) ]

calculateDistance(lat1, lon1, lat2, lon2) ==
    IF <<lat1, lon1, lat2, lon2>> \in DOMAIN KnownDistances
    THEN KnownDistances[<<lat1, lon1, lat2, lon2>>]
    ELSE haversine(lat1, lon1, lat2, lon2)

(***************************************************************************)
(* convertGooglePlaceToLocation                                             *)
(***************************************************************************)
\* a description is a sequence of segments: fixed phrases of the code and
\* texts taken from the candidate
Lit(str) == [lit |-> str, text |-> <<>>]
Txt(t) == [lit |-> "", text |-> t]

\* String.prototype.split(','): the pieces between the commas
RECURSIVE SplitFrom(_, _, _)
SplitFrom(s, k, piece) ==
    IF k > Len(s) THEN <<piece>>
    ELSE IF s[k] = "," THEN <<piece>> \o SplitFrom(s, k + 1, <<>>)
    ELSE SplitFrom(s, k + 1, Append(piece, s[k]))
split(s) == SplitFrom(s, 1, <<>>)

\* String.prototype.trim
RECURSIVE TrimLeft(_)
TrimLeft(s) == IF Len(s) > 0 /\ s[1] = " " THEN TrimLeft(Tail(s)) ELSE s
RECURSIVE TrimRight(_)
TrimRight(s) ==
    IF Len(s) > 0 /\ s[Len(s)] = " " THEN TrimRight(SubSeq(s, 1, Len(s) - 1)) ELSE s
trim(s) == TrimRight(TrimLeft(s))

\* place.types || []
placeTypesOf(place) == IF IsSome(place.types) THEN Get(place.types) ELSE <<>>

\* Mutant: the rating is appended to the text, as the earlier variant did.
buildPlaceDescription_rated(place) ==
    LET placeTypes == placeTypesOf(place)
        opening ==
            IF arrayIncludes(placeTypes, "tourist_attraction") \/ arrayIncludes(placeTypes, "museum")
            THEN Lit(" is a renowned heritage site and tourist destination. ")
            ELSE IF arrayIncludes(placeTypes, "place_of_worship") \/ arrayIncludes(placeTypes, "hindu_temple")
            THEN Lit(" is a sacred place of worship with rich cultural and spiritual significance. ")
            ELSE IF arrayIncludes(placeTypes, "historical_landmark")
            THEN Lit(" is a historical landmark that showcases the architectural heritage and cultural legacy of the region. ")
            ELSE Lit(" is a significant heritage site that represents the cultural and historical importance of this area. ")
        addressParts == IF Truthy(place.formatted_address)
                        THEN split(Get(place.formatted_address)) ELSE <<>>
        location ==
            IF Truthy(place.vicinity)
            THEN <<Lit("Located in "), Txt(Get(place.vicinity)), Lit(", ")>>
            ELSE IF Truthy(place.formatted_address) /\ Len(addressParts) > 1
            THEN <<Lit("Located in "), Txt(trim(addressParts[Len(addressParts) - 1])), Lit(", ")>>
            ELSE <<>>
    IN  <<Txt(place.name), opening>> \o location \o
        <<Lit("this site offers visitors a glimpse into the rich history and cultural traditions that have shaped this region over centuries.")>>
        \o (IF IsSome(place.rating) THEN <<Lit("Rated ")>> ELSE <<>>)

\* Mutant: the location clause takes the last segment of the address.
buildPlaceDescription_lastSegment(place) ==
    LET placeTypes == placeTypesOf(place)
        opening ==
            IF arrayIncludes(placeTypes, "tourist_attraction") \/ arrayIncludes(placeTypes, "museum")
            THEN Lit(" is a renowned heritage site and tourist destination. ")
            ELSE IF arrayIncludes(placeTypes, "place_of_worship") \/ arrayIncludes(placeTypes, "hindu_temple")
            THEN Lit(" is a sacred place of worship with rich cultural and spiritual significance. ")
            ELSE IF arrayIncludes(placeTypes, "historical_landmark")
            THEN Lit(" is a historical landmark that showcases the architectural heritage and cultural legacy of the region. ")
            ELSE Lit(" is a significant heritage site that represents the cultural and historical importance of this area. ")
        addressParts == IF Truthy(place.formatted_address)
                        THEN split(Get(place.formatted_address)) ELSE <<>>
        location ==
            IF Truthy(place.vicinity)
            THEN <<Lit("Located in "), Txt(Get(place.vicinity)), Lit(", ")>>
            ELSE IF Truthy(place.formatted_address) /\ Len(addressParts) > 1
            THEN <<Lit("Located in "), Txt(trim(addressParts[Len(addressParts)])), Lit(", ")>>
            ELSE <<>>
    IN  <<Txt(place.name), opening>> \o location \o
        <<Lit("this site offers visitors a glimpse into the rich history and cultural traditions that have shaped this region over centuries.")>>

buildPlaceDescription(place) ==
    LET placeTypes == placeTypesOf(place)
        opening ==
            IF arrayIncludes(placeTypes, "tourist_attraction") \/ arrayIncludes(placeTypes, "museum")
            THEN Lit(" is a renowned heritage site and tourist destination. ")
            ELSE IF arrayIncludes(placeTypes, "place_of_worship") \/ arrayIncludes(placeTypes, "hindu_temple")
            THEN Lit(" is a sacred place of worship with rich cultural and spiritual significance. ")
            ELSE IF arrayIncludes(placeTypes, "historical_landmark")
            THEN Lit(" is a historical landmark that showcases the architectural heritage and cultural legacy of the region. ")
            ELSE Lit(" is a significant heritage site that represents the cultural and historical importance of this area. ")
        addressParts == IF Truthy(place.formatted_address)
                        THEN split(Get(place.formatted_address)) ELSE <<>>
        location ==
            IF Truthy(place.vicinity)
            THEN <<Lit("Located in "), Txt(Get(place.vicinity)), Lit(", ")>>
            ELSE IF Truthy(place.formatted_address) /\ Len(addressParts) > 1
            THEN <<Lit("Located in "), Txt(trim(addressParts[Len(addressParts) - 1])), Lit(", ")>>
            ELSE <<>>
    IN  <<Txt(place.name), opening>> \o location \o
        <<Lit("this site offers visitors a glimpse into the rich history and cultural traditions that have shaped this region over centuries.")>>

\* Mutant: only an undefined key counts as not configured.
KeyConfigured_definedOnly(key) == IsSome(key)

\* `if (apiKey)`: the key is configured (neither undefined nor empty)
KeyConfigured(key) == IsSome(key) /\ Get(key) # ""

\* Mutant: the landmark / fort image is tested before the worship image.
getImageUrl_landmarkFirst(place, key) ==
    LET placeTypes == placeTypesOf(place)
        lower == toLowerCase(place.name)
    IN  IF IsSome(place.photos) /\ Len(Get(place.photos)) > 0 /\ KeyConfigured(key)
        THEN "https://cors-anywhere.herokuapp.com/"
             \o "https://maps.googleapis.com/maps/api/place/photo?maxwidth=400&photoreference="
             \o Get(place.photos)[1] \o "&key=" \o Get(key)
        ELSE IF arrayIncludes(placeTypes, "museum")
        THEN "https://images.unsplash.com/photo-1578495555443-d134c52754e7?w=400&h=300&fit=crop"
        ELSE IF arrayIncludes(placeTypes, "historical_landmark") \/ includes(lower, <<"f","o","r","t">>)
        THEN "https://images.unsplash.com/photo-1566127952889-bf906f4e4c5d?w=400&h=300&fit=crop"
        ELSE IF arrayIncludes(placeTypes, "place_of_worship") \/ arrayIncludes(placeTypes, "hindu_temple")
        THEN "https://images.unsplash.com/photo-1583224964938-0c17db9e623a?w=400&h=300&fit=crop"
        ELSE IF includes(lower, <<"p","a","l","a","c","e">>)
        THEN "https://images.unsplash.com/photo-1545042746-d0a8b69e5e22?w=400&h=300&fit=crop"
        ELSE IF includes(lower, <<"c","h","a","r","m","i","n","a","r">>)
        THEN "https://images.unsplash.com/photo-1564507592333-c60657eea523?w=400&h=300&fit=crop"
        ELSE "https://images.unsplash.com/photo-1578662996442-48f60103fc96?w=400&h=300&fit=crop"

\* Mutant: the name is searched as written, not in lower case.
getImageUrl_caseSensitive(place, key) ==
    LET placeTypes == placeTypesOf(place)
    IN  IF IsSome(place.photos) /\ Len(Get(place.photos)) > 0 /\ KeyConfigured(key)
        THEN "https://cors-anywhere.herokuapp.com/"
             \o "https://maps.googleapis.com/maps/api/place/photo?maxwidth=400&photoreference="
             \o Get(place.photos)[1] \o "&key=" \o Get(key)
        ELSE IF arrayIncludes(placeTypes, "museum")
        THEN "https://images.unsplash.com/photo-1578495555443-d134c52754e7?w=400&h=300&fit=crop"
        ELSE IF arrayIncludes(placeTypes, "place_of_worship") \/ arrayIncludes(placeTypes, "hindu_temple")
        THEN "https://images.unsplash.com/photo-1583224964938-0c17db9e623a?w=400&h=300&fit=crop"
        ELSE IF arrayIncludes(placeTypes, "historical_landmark") \/ includes(place.name, <<"f","o","r","t">>)
        THEN "https://images.unsplash.com/photo-1566127952889-bf906f4e4c5d?w=400&h=300&fit=crop"
        ELSE IF includes(place.name, <<"p","a","l","a","c","e">>)
        THEN "https://images.unsplash.com/photo-1545042746-d0a8b69e5e22?w=400&h=300&fit=crop"
        ELSE IF includes(place.name, <<"c","h","a","r","m","i","n","a","r">>)
        THEN "https://images.unsplash.com/photo-1564507592333-c60657eea523?w=400&h=300&fit=crop"
        ELSE "https://images.unsplash.com/photo-1578662996442-48f60103fc96?w=400&h=300&fit=crop"

\* Mutant: the photo URL is built from the last photo of the candidate.
getImageUrl_lastPhoto(place, key) ==
    LET placeTypes == placeTypesOf(place)
        lower == toLowerCase(place.name)
    IN  IF IsSome(place.photos) /\ Len(Get(place.photos)) > 0 /\ KeyConfigured(key)
        THEN "https://cors-anywhere.herokuapp.com/"
             \o "https://maps.googleapis.com/maps/api/place/photo?maxwidth=400&photoreference="
             \o Get(place.photos)[Len(Get(place.photos))] \o "&key=" \o Get(key)
        ELSE IF arrayIncludes(placeTypes, "museum")
        THEN "https://images.unsplash.com/photo-1578495555443-d134c52754e7?w=400&h=300&fit=crop"
        ELSE IF arrayIncludes(placeTypes, "place_of_worship") \/ arrayIncludes(placeTypes, "hindu_temple")
        THEN "https://images.unsplash.com/photo-1583224964938-0c17db9e623a?w=400&h=300&fit=crop"
        ELSE IF arrayIncludes(placeTypes, "historical_landmark") \/ includes(lower, <<"f","o","r","t">>)
        THEN "https://images.unsplash.com/photo-1566127952889-bf906f4e4c5d?w=400&h=300&fit=crop"
        ELSE IF includes(lower, <<"p","a","l","a","c","e">>)
        THEN "https://images.unsplash.com/photo-1545042746-d0a8b69e5e22?w=400&h=300&fit=crop"
        ELSE IF includes(lower, <<"c","h","a","r","m","i","n","a","r">>)
        THEN "https://images.unsplash.com/photo-1564507592333-c60657eea523?w=400&h=300&fit=crop"
        ELSE "https://images.unsplash.com/photo-1578662996442-48f60103fc96?w=400&h=300&fit=crop"

getImageUrl(place, key) ==
    LET placeTypes == placeTypesOf(place)
        lower == toLowerCase(place.name)
    IN  IF IsSome(place.photos) /\ Len(Get(place.photos)) > 0 /\ KeyConfigured(key)
        THEN "https://cors-anywhere.herokuapp.com/"
             \o "https://maps.googleapis.com/maps/api/place/photo?maxwidth=400&photoreference="
             \o Get(place.photos)[1] \o "&key=" \o Get(key)
        ELSE IF arrayIncludes(placeTypes, "museum")
        THEN "https://images.unsplash.com/photo-1578495555443-d134c52754e7?w=400&h=300&fit=crop"
        ELSE IF arrayIncludes(placeTypes, "place_of_worship") \/ arrayIncludes(placeTypes, "hindu_temple")
        THEN "https://images.unsplash.com/photo-1583224964938-0c17db9e623a?w=400&h=300&fit=crop"
        ELSE IF arrayIncludes(placeTypes, "historical_landmark") \/ includes(lower, <<"f","o","r","t">>)
        THEN "https://images.unsplash.com/photo-1566127952889-bf906f4e4c5d?w=400&h=300&fit=crop"
        ELSE IF includes(lower, <<"p","a","l","a","c","e">>)
        THEN "https://images.unsplash.com/photo-1545042746-d0a8b69e5e22?w=400&h=300&fit=crop"
        ELSE IF includes(lower, <<"c","h","a","r","m","i","n","a","r">>)
        THEN "https://images.unsplash.com/photo-1564507592333-c60657eea523?w=400&h=300&fit=crop"
        ELSE "https://images.unsplash.com/photo-1578662996442-48f60103fc96?w=400&h=300&fit=crop"

\* place.geometry.location.lat on a candidate without geometry throws
convertThrows(place) == ~IsSome(place.geometry)

\* Mutant: openNow is written as `place.opening_hours?.open_now || undefined`,
\* which drops a false.
convertGooglePlaceToLocation_dropsFalse(place, userLat, userLng, key) ==
    LET distance == calculateDistance(userLat, userLng,
                                      Get(place.geometry).lat, Get(place.geometry).lng)
    IN  [ id |-> place.place_id,
          name |-> place.name,
          description |-> buildPlaceDescription(place),
          latitude |-> Get(place.geometry).lat,
          longitude |-> Get(place.geometry).lng,
          imageUrl |-> getImageUrl(place, key),
          category |-> "heritage",
          distance |-> formatDistance(distance),
          googlePlacesData |->
              [ rating |-> place.rating,
                userRatingsTotal |-> place.user_ratings_total,
                businessStatus |-> place.business_status,
                openNow |-> IF place.opening_hours = Some(TRUE) THEN Some(TRUE) ELSE None,
                types |-> place.types,
                formattedAddress |-> place.formatted_address,
                vicinity |-> place.vicinity ] ]

convertGooglePlaceToLocation(place, userLat, userLng, key) ==
    LET distance == calculateDistance(userLat, userLng,
                                      Get(place.geometry).lat, Get(place.geometry).lng)
    IN  [ id |-> place.place_id,
          name |-> place.name,
          description |-> buildPlaceDescription(place),
          latitude |-> Get(place.geometry).lat,
          longitude |-> Get(place.geometry).lng,
          imageUrl |-> getImageUrl(place, key),
          category |-> "heritage",
          distance |-> formatDistance(distance),
          googlePlacesData |->
              [ rating |-> place.rating,
                userRatingsTotal |-> place.user_ratings_total,
                businessStatus |-> place.business_status,
                openNow |-> place.opening_hours,
                types |-> place.types,
                formattedAddress |-> place.formatted_address,
                vicinity |-> place.vicinity ] ]

(***************************************************************************)
(* getFallbackHistoricPlaces: the five seed places around (lat, lon).       *)
(* 0.01 degree is 100 units of 1/CoordScale degree; a rating is in tenths.  *)
(***************************************************************************)
\* const fallbackPlaces: Location[] = [ ... ]
fallbackPlaces(lat, lon) ==
    <<
      [ id |-> "fallback-historic-1",
        name |-> <<"C","h","a","r","m","i","n","a","r"," ","H","e","r","i","t","a","g","e"," ","M","o","n","u","m","e","n","t">>,
        description |-> <<Lit("Charminar is a magnificent monument and mosque built in 1591. This iconic structure stands as a symbol of Hyderabad with its four grand arches and minarets. The monument showcases Indo-Islamic architecture and offers visitors a glimpse into the rich history of the Qutb Shahi dynasty.")>>,
        latitude |-> lat + 100,
        longitude |-> lon + 100,
        imageUrl |-> "https://images.unsplash.com/photo-1564507592333-c60657eea523?w=400&h=300&fit=crop",
        category |-> "heritage",
        distance |-> "1.2km",
        googlePlacesData |->
            [ rating |-> Some(45),
              userRatingsTotal |-> Some(8234),
              businessStatus |-> Some("OPERATIONAL"),
              openNow |-> Some(TRUE),
              types |-> Some(<<"tourist_attraction", "historical_landmark", "monument">>),
              formattedAddress |-> Some(<<"C","h","a","r","m","i","n","a","r"," ","R","d",","," ","C","h","a","r"," ","K","a","m","a","n",","," ","G","h","a","n","s","i"," ","B","a","z","a","a","r",","," ","H","y","d","e","r","a","b","a","d",","," ","T","e","l","a","n","g","a","n","a"," ","5","0","0","0","0","2",","," ","I","n","d","i","a">>),
              vicinity |-> Some(<<"C","h","a","r","m","i","n","a","r">>) ] ],
      [ id |-> "fallback-heritage-2",
        name |-> <<"S","t","a","t","e"," ","A","r","c","h","a","e","o","l","o","g","i","c","a","l"," ","M","u","s","e","u","m">>,
        description |-> <<Lit("The State Archaeological Museum houses an extensive collection of artifacts, sculptures, and relics that chronicle the rich cultural heritage of the region. Established to preserve and showcase archaeological treasures, the museum offers visitors an educational journey through centuries of art, culture, and history.")>>,
        latitude |-> lat - 100,
        longitude |-> lon + 100,
        imageUrl |-> "https://images.unsplash.com/photo-1578495555443-d134c52754e7?w=400&h=300&fit=crop",
        category |-> "heritage",
        distance |-> "2.1km",
        googlePlacesData |->
            [ rating |-> Some(42),
              userRatingsTotal |-> Some(1456),
              businessStatus |-> Some("OPERATIONAL"),
              openNow |-> Some(TRUE),
              types |-> Some(<<"museum", "tourist_attraction", "cultural_center">>),
              formattedAddress |-> Some(<<"P","u","b","l","i","c"," ","G","a","r","d","e","n","s",","," ","N","a","m","p","a","l","l","y",","," ","H","y","d","e","r","a","b","a","d",","," ","T","e","l","a","n","g","a","n","a"," ","5","0","0","0","0","1",","," ","I","n","d","i","a">>),
              vicinity |-> Some(<<"N","a","m","p","a","l","l","y">>) ] ],
      [ id |-> "fallback-temple-3",
        name |-> <<"B","i","r","l","a"," ","M","a","n","d","i","r"," ","T","e","m","p","l","e">>,
        description |-> <<Lit("Birla Mandir is a stunning Hindu temple constructed entirely of white marble and dedicated to Lord Venkateswara. Perched atop a hill, this temple combines traditional and modern architectural elements, offering devotees and visitors a serene spiritual experience along with panoramic views of the city.")>>,
        latitude |-> lat + 50,
        longitude |-> lon - 50,
        imageUrl |-> "https://images.unsplash.com/photo-1583224964938-0c17db9e623a?w=400&h=300&fit=crop",
        category |-> "heritage",
        distance |-> "800m",
        googlePlacesData |->
            [ rating |-> Some(47),
              userRatingsTotal |-> Some(12089),
              businessStatus |-> Some("OPERATIONAL"),
              openNow |-> Some(TRUE),
              types |-> Some(<<"hindu_temple", "place_of_worship", "tourist_attraction">>),
              formattedAddress |-> Some(<<"H","i","l","l"," ","F","o","r","t"," ","R","d",","," ","A","m","b","e","d","k","a","r"," ","C","o","l","o","n","y",","," ","M","e","h","d","i","p","a","t","n","a","m",","," ","H","y","d","e","r","a","b","a","d",","," ","T","e","l","a","n","g","a","n","a"," ","5","0","0","0","2","8",","," ","I","n","d","i","a">>),
              vicinity |-> Some(<<"M","e","h","d","i","p","a","t","n","a","m">>) ] ],
      [ id |-> "fallback-fort-4",
        name |-> <<"G","o","l","c","o","n","d","a"," ","F","o","r","t">>,
        description |-> <<Lit("Golconda Fort is a medieval fortress built by the Kakatiya dynasty and later expanded by the Qutb Shahi rulers. This imposing citadel features ingenious architecture, intricate acoustic systems, and defensive mechanisms. The fort complex offers visitors a fascinating journey through military architecture and royal history.")>>,
        latitude |-> lat - 50,
        longitude |-> lon - 100,
        imageUrl |-> "https://images.unsplash.com/photo-1566127952889-bf906f4e4c5d?w=400&h=300&fit=crop",
        category |-> "heritage",
        distance |-> "1.8km",
        googlePlacesData |->
            [ rating |-> Some(43),
              userRatingsTotal |-> Some(15678),
              businessStatus |-> Some("OPERATIONAL"),
              openNow |-> Some(FALSE),
              types |-> Some(<<"historical_landmark", "fort", "tourist_attraction">>),
              formattedAddress |-> Some(<<"K","h","a","i","r"," ","C","o","m","p","l","e","x",","," ","I","b","r","a","h","i","m"," ","B","a","g","h",","," ","H","y","d","e","r","a","b","a","d",","," ","T","e","l","a","n","g","a","n","a"," ","5","0","0","0","0","8",","," ","I","n","d","i","a">>),
              vicinity |-> Some(<<"I","b","r","a","h","i","m"," ","B","a","g","h">>) ] ],
      [ id |-> "fallback-palace-5",
        name |-> <<"C","h","o","w","m","a","h","a","l","l","a"," ","P","a","l","a","c","e">>,
        description |-> <<Lit("Chowmahalla Palace served as the official residence of the Nizams of Hyderabad and is renowned for its exquisite architecture and royal grandeur. The palace complex showcases a blend of Persian, Turkish, and European architectural styles, featuring ornate halls, beautiful courtyards, and a remarkable collection of vintage cars and artifacts.")>>,
        latitude |-> lat + 80,
        longitude |-> lon - 80,
        imageUrl |-> "https://images.unsplash.com/photo-1545042746-d0a8b69e5e22?w=400&h=300&fit=crop",
        category |-> "heritage",
        distance |-> "2.5km",
        googlePlacesData |->
            [ rating |-> Some(44),
              userRatingsTotal |-> Some(3567),
              businessStatus |-> Some("CLOSED_TEMPORARILY"),
              openNow |-> Some(FALSE),
              types |-> Some(<<"palace", "historical_landmark", "museum">>),
              formattedAddress |-> Some(<<"2","0","-","4","-","2","3","6",","," ","M","o","t","i","g","a","l","l","i",","," ","K","h","i","l","w","a","t",","," ","H","y","d","e","r","a","b","a","d",","," ","T","e","l","a","n","g","a","n","a"," ","5","0","0","0","0","2",","," ","I","n","d","i","a">>),
              vicinity |-> Some(<<"K","h","i","l","w","a","t">>) ] ] >>

\* Mutant: the last seed place is left out.
getFallbackHistoricPlaces_four(lat, lon) == SubSeq(fallbackPlaces(lat, lon), 1, 4)

\* Mutant: the distance label of a seed place is measured from the anchor.
getFallbackHistoricPlaces_measured(lat, lon) ==
    [ k \in 1..Len(fallbackPlaces(lat, lon)) |->
        [ fallbackPlaces(lat, lon)[k] EXCEPT
            !.distance = formatDistance(calculateDistance(lat, lon,
                             fallbackPlaces(lat, lon)[k].latitude,
                             fallbackPlaces(lat, lon)[k].longitude)) ] ]

getFallbackHistoricPlaces(lat, lon) == fallbackPlaces(lat, lon)

(***************************************************************************)
(* The text of a description: the phrases of the template literals and of   *)
(* the seed descriptions character by character, and the string a           *)
(* description evaluates to.                                                *)
(***************************************************************************)
PhraseChars(str) ==
    CASE str = " is a renowned heritage site and tourist destination. " ->
       <<
          " ","i","s"," ","a"," ","r","e","n","o","w","n","e","d"," ","h",
          "e","r","i","t","a","g","e"," ","s","i","t","e"," ","a","n","d",
          " ","t","o","u","r","i","s","t"," ","d","e","s","t","i","n","a",
          "t","i","o","n","."," " >>
      [] str = " is a sacred place of worship with rich cultural and spiritual significance. " ->
       <<
          " ","i","s"," ","a"," ","s","a","c","r","e","d"," ","p","l","a",
          "c","e"," ","o","f"," ","w","o","r","s","h","i","p"," ","w","i",
          "t","h"," ","r","i","c","h"," ","c","u","l","t","u","r","a","l",
          " ","a","n","d"," ","s","p","i","r","i","t","u","a","l"," ","s",
          "i","g","n","i","f","i","c","a","n","c","e","."," " >>
      [] str = " is a historical landmark that showcases the architectural heritage and cultural legacy of the region. " ->
       <<
          " ","i","s"," ","a"," ","h","i","s","t","o","r","i","c","a","l",
          " ","l","a","n","d","m","a","r","k"," ","t","h","a","t"," ","s",
          "h","o","w","c","a","s","e","s"," ","t","h","e"," ","a","r","c",
          "h","i","t","e","c","t","u","r","a","l"," ","h","e","r","i","t",
          "a","g","e"," ","a","n","d"," ","c","u","l","t","u","r","a","l",
          " ","l","e","g","a","c","y"," ","o","f"," ","t","h","e"," ","r",
          "e","g","i","o","n","."," " >>
      [] str = " is a significant heritage site that represents the cultural and historical importance of this area. " ->
       <<
          " ","i","s"," ","a"," ","s","i","g","n","i","f","i","c","a","n",
          "t"," ","h","e","r","i","t","a","g","e"," ","s","i","t","e"," ",
          "t","h","a","t"," ","r","e","p","r","e","s","e","n","t","s"," ",
          "t","h","e"," ","c","u","l","t","u","r","a","l"," ","a","n","d",
          " ","h","i","s","t","o","r","i","c","a","l"," ","i","m","p","o",
          "r","t","a","n","c","e"," ","o","f"," ","t","h","i","s"," ","a",
          "r","e","a","."," " >>
      [] str = "Located in " ->
       <<
          "L","o","c","a","t","e","d"," ","i","n"," " >>
      [] str = ", " ->
       <<
          ","," " >>
      [] str = "this site offers visitors a glimpse into the rich history and cultural traditions that have shaped this region over centuries." ->
       <<
          "t","h","i","s"," ","s","i","t","e"," ","o","f","f","e","r","s",
          " ","v","i","s","i","t","o","r","s"," ","a"," ","g","l","i","m",
          "p","s","e"," ","i","n","t","o"," ","t","h","e"," ","r","i","c",
          "h"," ","h","i","s","t","o","r","y"," ","a","n","d"," ","c","u",
          "l","t","u","r","a","l"," ","t","r","a","d","i","t","i","o","n",
          "s"," ","t","h","a","t"," ","h","a","v","e"," ","s","h","a","p",
          "e","d"," ","t","h","i","s"," ","r","e","g","i","o","n"," ","o",
          "v","e","r"," ","c","e","n","t","u","r","i","e","s","." >>
      [] str = "Charminar is a magnificent monument and mosque built in 1591. This iconic structure stands as a symbol of Hyderabad with its four grand arches and minarets. The monument showcases Indo-Islamic architecture and offers visitors a glimpse into the rich history of the Qutb Shahi dynasty." ->
       <<
          "C","h","a","r","m","i","n","a","r"," ","i","s"," ","a"," ","m",
          "a","g","n","i","f","i","c","e","n","t"," ","m","o","n","u","m",
          "e","n","t"," ","a","n","d"," ","m","o","s","q","u","e"," ","b",
          "u","i","l","t"," ","i","n"," ","1","5","9","1","."," ","T","h",
          "i","s"," ","i","c","o","n","i","c"," ","s","t","r","u","c","t",
          "u","r","e"," ","s","t","a","n","d","s"," ","a","s"," ","a"," ",
          "s","y","m","b","o","l"," ","o","f"," ","H","y","d","e","r","a",
          "b","a","d"," ","w","i","t","h"," ","i","t","s"," ","f","o","u",
          "r"," ","g","r","a","n","d"," ","a","r","c","h","e","s"," ","a",
          "n","d"," ","m","i","n","a","r","e","t","s","."," ","T","h","e",
          " ","m","o","n","u","m","e","n","t"," ","s","h","o","w","c","a",
          "s","e","s"," ","I","n","d","o","-","I","s","l","a","m","i","c",
          " ","a","r","c","h","i","t","e","c","t","u","r","e"," ","a","n",
          "d"," ","o","f","f","e","r","s"," ","v","i","s","i","t","o","r",
          "s"," ","a"," ","g","l","i","m","p","s","e"," ","i","n","t","o",
          " ","t","h","e"," ","r","i","c","h"," ","h","i","s","t","o","r",
          "y"," ","o","f"," ","t","h","e"," ","Q","u","t","b"," ","S","h",
          "a","h","i"," ","d","y","n","a","s","t","y","." >>
      [] str = "The State Archaeological Museum houses an extensive collection of artifacts, sculptures, and relics that chronicle the rich cultural heritage of the region. Established to preserve and showcase archaeological treasures, the museum offers visitors an educational journey through centuries of art, culture, and history." ->
       <<
          "T","h","e"," ","S","t","a","t","e"," ","A","r","c","h","a","e",
          "o","l","o","g","i","c","a","l"," ","M","u","s","e","u","m"," ",
          "h","o","u","s","e","s"," ","a","n"," ","e","x","t","e","n","s",
          "i","v","e"," ","c","o","l","l","e","c","t","i","o","n"," ","o",
          "f"," ","a","r","t","i","f","a","c","t","s",","," ","s","c","u",
          "l","p","t","u","r","e","s",","," ","a","n","d"," ","r","e","l",
          "i","c","s"," ","t","h","a","t"," ","c","h","r","o","n","i","c",
          "l","e"," ","t","h","e"," ","r","i","c","h"," ","c","u","l","t",
          "u","r","a","l"," ","h","e","r","i","t","a","g","e"," ","o","f",
          " ","t","h","e"," ","r","e","g","i","o","n","."," ","E","s","t",
          "a","b","l","i","s","h","e","d"," ","t","o"," ","p","r","e","s",
          "e","r","v","e"," ","a","n","d"," ","s","h","o","w","c","a","s",
          "e"," ","a","r","c","h","a","e","o","l","o","g","i","c","a","l",
          " ","t","r","e","a","s","u","r","e","s",","," ","t","h","e"," ",
          "m","u","s","e","u","m"," ","o","f","f","e","r","s"," ","v","i",
          "s","i","t","o","r","s"," ","a","n"," ","e","d","u","c","a","t",
          "i","o","n","a","l"," ","j","o","u","r","n","e","y"," ","t","h",
          "r","o","u","g","h"," ","c","e","n","t","u","r","i","e","s"," ",
          "o","f"," ","a","r","t",","," ","c","u","l","t","u","r","e",",",
          " ","a","n","d"," ","h","i","s","t","o","r","y","." >>
      [] str = "Birla Mandir is a stunning Hindu temple constructed entirely of white marble and dedicated to Lord Venkateswara. Perched atop a hill, this temple combines traditional and modern architectural elements, offering devotees and visitors a serene spiritual experience along with panoramic views of the city." ->
       <<
          "B","i","r","l","a"," ","M","a","n","d","i","r"," ","i","s"," ",
          "a"," ","s","t","u","n","n","i","n","g"," ","H","i","n","d","u",
          " ","t","e","m","p","l","e"," ","c","o","n","s","t","r","u","c",
          "t","e","d"," ","e","n","t","i","r","e","l","y"," ","o","f"," ",
          "w","h","i","t","e"," ","m","a","r","b","l","e"," ","a","n","d",
          " ","d","e","d","i","c","a","t","e","d"," ","t","o"," ","L","o",
          "r","d"," ","V","e","n","k","a","t","e","s","w","a","r","a",".",
          " ","P","e","r","c","h","e","d"," ","a","t","o","p"," ","a"," ",
          "h","i","l","l",","," ","t","h","i","s"," ","t","e","m","p","l",
          "e"," ","c","o","m","b","i","n","e","s"," ","t","r","a","d","i",
          "t","i","o","n","a","l"," ","a","n","d"," ","m","o","d","e","r",
          "n"," ","a","r","c","h","i","t","e","c","t","u","r","a","l"," ",
          "e","l","e","m","e","n","t","s",","," ","o","f","f","e","r","i",
          "n","g"," ","d","e","v","o","t","e","e","s"," ","a","n","d"," ",
          "v","i","s","i","t","o","r","s"," ","a"," ","s","e","r","e","n",
          "e"," ","s","p","i","r","i","t","u","a","l"," ","e","x","p","e",
          "r","i","e","n","c","e"," ","a","l","o","n","g"," ","w","i","t",
          "h"," ","p","a","n","o","r","a","m","i","c"," ","v","i","e","w",
          "s"," ","o","f"," ","t","h","e"," ","c","i","t","y","." >>
      [] str = "Golconda Fort is a medieval fortress built by the Kakatiya dynasty and later expanded by the Qutb Shahi rulers. This imposing citadel features ingenious architecture, intricate acoustic systems, and defensive mechanisms. The fort complex offers visitors a fascinating journey through military architecture and royal history." ->
       <<
          "G","o","l","c","o","n","d","a"," ","F","o","r","t"," ","i","s",
          " ","a"," ","m","e","d","i","e","v","a","l"," ","f","o","r","t",
          "r","e","s","s"," ","b","u","i","l","t"," ","b","y"," ","t","h",
          "e"," ","K","a","k","a","t","i","y","a"," ","d","y","n","a","s",
          "t","y"," ","a","n","d"," ","l","a","t","e","r"," ","e","x","p",
          "a","n","d","e","d"," ","b","y"," ","t","h","e"," ","Q","u","t",
          "b"," ","S","h","a","h","i"," ","r","u","l","e","r","s","."," ",
          "T","h","i","s"," ","i","m","p","o","s","i","n","g"," ","c","i",
          "t","a","d","e","l"," ","f","e","a","t","u","r","e","s"," ","i",
          "n","g","e","n","i","o","u","s"," ","a","r","c","h","i","t","e",
          "c","t","u","r","e",","," ","i","n","t","r","i","c","a","t","e",
          " ","a","c","o","u","s","t","i","c"," ","s","y","s","t","e","m",
          "s",","," ","a","n","d"," ","d","e","f","e","n","s","i","v","e",
          " ","m","e","c","h","a","n","i","s","m","s","."," ","T","h","e",
          " ","f","o","r","t"," ","c","o","m","p","l","e","x"," ","o","f",
          "f","e","r","s"," ","v","i","s","i","t","o","r","s"," ","a"," ",
          "f","a","s","c","i","n","a","t","i","n","g"," ","j","o","u","r",
          "n","e","y"," ","t","h","r","o","u","g","h"," ","m","i","l","i",
          "t","a","r","y"," ","a","r","c","h","i","t","e","c","t","u","r",
          "e"," ","a","n","d"," ","r","o","y","a","l"," ","h","i","s","t",
          "o","r","y","." >>
      [] str = "Chowmahalla Palace served as the official residence of the Nizams of Hyderabad and is renowned for its exquisite architecture and royal grandeur. The palace complex showcases a blend of Persian, Turkish, and European architectural styles, featuring ornate halls, beautiful courtyards, and a remarkable collection of vintage cars and artifacts." ->
       <<
          "C","h","o","w","m","a","h","a","l","l","a"," ","P","a","l","a",
          "c","e"," ","s","e","r","v","e","d"," ","a","s"," ","t","h","e",
          " ","o","f","f","i","c","i","a","l"," ","r","e","s","i","d","e",
          "n","c","e"," ","o","f"," ","t","h","e"," ","N","i","z","a","m",
          "s"," ","o","f"," ","H","y","d","e","r","a","b","a","d"," ","a",
          "n","d"," ","i","s"," ","r","e","n","o","w","n","e","d"," ","f",
          "o","r"," ","i","t","s"," ","e","x","q","u","i","s","i","t","e",
          " ","a","r","c","h","i","t","e","c","t","u","r","e"," ","a","n",
          "d"," ","r","o","y","a","l"," ","g","r","a","n","d","e","u","r",
          "."," ","T","h","e"," ","p","a","l","a","c","e"," ","c","o","m",
          "p","l","e","x"," ","s","h","o","w","c","a","s","e","s"," ","a",
          " ","b","l","e","n","d"," ","o","f"," ","P","e","r","s","i","a",
          "n",","," ","T","u","r","k","i","s","h",","," ","a","n","d"," ",
          "E","u","r","o","p","e","a","n"," ","a","r","c","h","i","t","e",
          "c","t","u","r","a","l"," ","s","t","y","l","e","s",","," ","f",
          "e","a","t","u","r","i","n","g"," ","o","r","n","a","t","e"," ",
          "h","a","l","l","s",","," ","b","e","a","u","t","i","f","u","l",
          " ","c","o","u","r","t","y","a","r","d","s",","," ","a","n","d",
          " ","a"," ","r","e","m","a","r","k","a","b","l","e"," ","c","o",
          "l","l","e","c","t","i","o","n"," ","o","f"," ","v","i","n","t",
          "a","g","e"," ","c","a","r","s"," ","a","n","d"," ","a","r","t",
          "i","f","a","c","t","s","." >>

      [] str = "Rated " ->      \* of the earlier variant (line 502)
       << "R","a","t","e","d"," " >>

segmentText(seg) == IF seg.lit = "" THEN seg.text ELSE PhraseChars(seg.lit)

RECURSIVE descriptionText(_)
descriptionText(d) ==
    IF d = <<>> THEN <<>> ELSE segmentText(Head(d)) \o descriptionText(Tail(d))

(***************************************************************************)
(* Response bodies.  A body is what the proxy sent for one request:         *)
(*   "invalid"  text that is no JSON (response.json() / JSON.parse throws)  *)
(*   "null"     the JSON value null                                         *)
(*   "data"     a provider payload { status, results, error_message }       *)
(*   "wrapper"  the allorigins envelope { status: { http_code }, contents }, *)
(*              `inner` being the body that the text `contents` holds       *)
(***************************************************************************)
NoBody ==
    [ kind |-> "none", http_code |-> 0, inner |-> None, status |-> "",
      results |-> None, error_message |-> None ]
NotJson == [NoBody EXCEPT !.kind = "invalid"]
JsonNull == [NoBody EXCEPT !.kind = "null"]
DataBody(st, res, err) ==
    [NoBody EXCEPT !.kind = "data", !.status = st, !.results = res, !.error_message = err]
WrapperBody(code, contents) ==
    [NoBody EXCEPT !.kind = "wrapper", !.http_code = code, !.inner = Some(contents)]

(***************************************************************************)
(* fetchHistoricPlacesWithCORS                                              *)
(***************************************************************************)
corsProxies ==
    << "https://api.allorigins.win/get?url=",
       "https://corsproxy.io/?",
       "https://thingproxy.freeboard.io/fetch/",
       "https://cors-anywhere.herokuapp.com/" >>

\* corsProxy.includes('allorigins.win')
isAllOrigins(corsProxy) == corsProxy = "https://api.allorigins.win/get?url="

\* the request fetch() is called with for corsProxies[k] (k counts from 0):
\* the proxy, the target URL's query parameters, whether the target URL is
\* passed through encodeURIComponent, and the request headers
RequestFor(k, lat, lon, key) ==
    [ proxy |-> corsProxies[k + 1],
      baseUrl |-> "https://maps.googleapis.com/maps/api/place/nearbysearch/json",
      location |-> <<lat, lon>>,
      radius |-> "50000",
      type |-> "tourist_attraction",
      keyword |-> "historic heritage monument museum archaeological temple fort palace",
      key |-> Get(key),
      encoded |-> isAllOrigins(corsProxies[k + 1]),
      headers |-> IF isAllOrigins(corsProxies[k + 1])
                  THEN <<>> ELSE <<"X-Requested-With: XMLHttpRequest">> ]

\* the value of `data` after lines 245-258, for a body that gets that far
Unwrapped(corsProxy, body) ==
    IF isAllOrigins(corsProxy) THEN Get(body.inner) ELSE body

\* Mutant: data.status is not tested.
Classify_ignoresStatus(corsProxy, body) ==
    IF body.kind = "invalid" THEN "parse"
    ELSE IF isAllOrigins(corsProxy) /\ body.kind = "null" THEN "shape"
    ELSE IF isAllOrigins(corsProxy) /\ ~(body.kind = "wrapper" /\ body.http_code = 200)
    THEN "wrapper"
    ELSE LET data == Unwrapped(corsProxy, body)
         IN  IF data.kind = "invalid" THEN "parse"
             ELSE IF data.kind = "null" THEN "shape"
             ELSE IF data.kind # "data" THEN "status"
             ELSE IF filterThrows(data.results) THEN "shape"
             ELSE IF \E k \in 1..Len(filterHistoricPlaces(Get(data.results))) :
                        convertThrows(filterHistoricPlaces(Get(data.results))[k])
             THEN "shape"
             ELSE "ok"

\* How lines 245-275 end for a body:
\*   "parse"    response.json() or JSON.parse threw a SyntaxError
\*   "shape"    a TypeError (property of null, results.filter, place.types.some,
\*              place.geometry.location)
\*   "wrapper"  allorigins status.http_code is not 200
\*   "status"   data.status is not 'OK'
\*   "ok"       the locations are returned
Classify(corsProxy, body) ==
    IF body.kind = "invalid" THEN "parse"
    ELSE IF isAllOrigins(corsProxy) /\ body.kind = "null" THEN "shape"
    ELSE IF isAllOrigins(corsProxy) /\ ~(body.kind = "wrapper" /\ body.http_code = 200)
    THEN "wrapper"
    ELSE LET data == Unwrapped(corsProxy, body)
         IN  IF data.kind = "invalid" THEN "parse"
             ELSE IF data.kind = "null" THEN "shape"
             ELSE IF data.kind # "data" \/ data.status # "OK" THEN "status"
             ELSE IF filterThrows(data.results) THEN "shape"
             ELSE IF \E k \in 1..Len(filterHistoricPlaces(Get(data.results))) :
                        convertThrows(filterHistoricPlaces(Get(data.results))[k])
             THEN "shape"
             ELSE "ok"

\* Mutant: a candidate whose place_id occurred earlier in the list is dropped.
LocationsOf_dedup(data, lat, lon, key) ==
    LET historicPlaces == filterHistoricPlaces(Get(data.results))
        first == { k \in 1..Len(historicPlaces) :
                     \A j \in 1..(k - 1) : historicPlaces[j].place_id # historicPlaces[k].place_id }
        kept1 == SelectSeq([k \in 1..Len(historicPlaces) |-> k], LAMBDA k : k \in first)
    IN  [k \in 1..Len(kept1) |->
            convertGooglePlaceToLocation(historicPlaces[kept1[k]], lat, lon, key)]

\* Mutant: a list of fewer than five places is filled up with seed places.
LocationsOf_padded(data, lat, lon, key) ==
    LET historicPlaces == filterHistoricPlaces(Get(data.results))
        locations == [k \in 1..Len(historicPlaces) |->
                         convertGooglePlaceToLocation(historicPlaces[k], lat, lon, key)]
    IN  IF Len(locations) < 5
        THEN locations \o SubSeq(getFallbackHistoricPlaces(lat, lon), 1, 5 - Len(locations))
        ELSE locations

\* historicPlaces.map(place => convertGooglePlaceToLocation(place, latitude, longitude))
LocationsOf(data, lat, lon, key) ==
    LET historicPlaces == filterHistoricPlaces(Get(data.results))
    IN  [k \in 1..Len(historicPlaces) |->
            convertGooglePlaceToLocation(historicPlaces[k], lat, lon, key)]

\* A console event: the level, the source line, the text of the first
\* argument as the code writes it, and the values it carries (those put into
\* the template and the further arguments), each as the text it prints as.
LogEvent(lv, ln, txt, vals) == [level |-> lv, line |-> ln, text |-> txt, values |-> vals]

NoKeyLog ==
    LogEvent("warn", 188, "Google Places API key not found. Using fallback data.", <<>>)
ExhaustedLog ==
    LogEvent("warn", 284, "All CORS proxies failed, using fallback data", <<>>)

\* data.error_message || data.status, of the payload delivered to path i
ProviderErrorText ==
    LET data == Unwrapped(corsProxies[i + 1], response')
    IN  IF IsSome(data.error_message) /\ Get(data.error_message) # ""
        THEN Get(data.error_message)
        ELSE IF data.kind = "data" THEN data.status ELSE "undefined"

\* what the caught error prints as
ErrorText(how) ==
    CASE how = "transport" -> "TypeError: Failed to fetch"
      [] how = "parse" -> "SyntaxError: Unexpected token"
      [] how = "shape" -> "TypeError: Cannot read properties"
      [] OTHER -> "Error"

\* the console event of a failed path (lines 241, 253, 263, 278); the number
\* response.status is not modelled further
FailureLog(how) ==
    CASE how = "http" ->
            LogEvent("warn", 241,
                     "Proxy ${i + 1} failed with status ${response.status}, trying next...",
                     <<ToString(i + 1), "response.status">>)
      [] how = "wrapper" ->
            LogEvent("warn", 253, "AllOrigins proxy failed, trying next...", <<>>)
      [] how = "status" ->
            LogEvent("error", 263, "Google Places API error:", <<ProviderErrorText>>)
      [] OTHER ->
            LogEvent("warn", 278, "Proxy ${i + 1} failed:", <<ToString(i + 1), ErrorText(how)>>)

\* `return list`: the promise resolves
Return(list, by) ==
    /\ result' = Some(list)
    /\ settled' = "resolved"
    /\ source' = by
    /\ pc' = "done"

\* Mutant: the loop stops one proxy early (i < corsProxies.length - 1).
Continue_stopsEarly(how) ==
    /\ outcomes' = Append(outcomes, how)
    /\ i' = i + 1
    /\ IF i + 1 < Len(corsProxies) - 1
       THEN /\ requests' = Append(requests, RequestFor(i + 1, latitude, longitude, apiKey))
            /\ pc' = "fetch"
            /\ logs' = Append(logs, FailureLog(how))
            /\ UNCHANGED <<settled, result, source>>
       ELSE /\ Return(getFallbackHistoricPlaces(latitude, longitude), "exhausted")
            /\ logs' = logs \o <<FailureLog(how), ExhaustedLog>>
            /\ UNCHANGED requests

\* Mutant: the last proxy is tried again and again until it answers.
Continue_retriesLast(how) ==
    IF i + 1 < Len(corsProxies)
    THEN /\ outcomes' = Append(outcomes, how)
         /\ i' = i + 1
         /\ requests' = Append(requests, RequestFor(i + 1, latitude, longitude, apiKey))
         /\ pc' = "fetch"
         /\ logs' = Append(logs, FailureLog(how))
         /\ UNCHANGED <<settled, result, source>>
    ELSE /\ pc' = "fetch"
         /\ UNCHANGED <<i, requests, outcomes, logs, settled, result, source>>

\* `continue`: the next loop iteration up to its `await fetch(...)`, or the
\* end of the loop and the fallback of lines 283-287
Continue(how) ==
    /\ outcomes' = Append(outcomes, how)
    /\ i' = i + 1
    /\ IF i + 1 < Len(corsProxies)
       THEN /\ requests' = Append(requests, RequestFor(i + 1, latitude, longitude, apiKey))
            /\ pc' = "fetch"
            /\ logs' = Append(logs, FailureLog(how))
            /\ UNCHANGED <<settled, result, source>>
       ELSE /\ Return(getFallbackHistoricPlaces(latitude, longitude), "exhausted")
            /\ logs' = logs \o <<FailureLog(how), ExhaustedLog>>
            /\ UNCHANGED requests

\* Mutant: the error is not caught; the promise rejects.
catchProxyError_uncaught(how) ==
    /\ outcomes' = Append(outcomes, how)
    /\ settled' = "rejected"
    /\ pc' = "done"
    /\ UNCHANGED <<i, requests, result, source, logs>>

\* catch (proxyError) { console.warn(...); continue; }
catchProxyError(how) == Continue(how)

\* targetUrl = `${baseUrl}?${params}` (URLSearchParams writes "," as %2C and
\* " " as +); the coordinates are printed in units of 1/CoordScale degree
targetUrl(req) ==
    req.baseUrl \o "?location=" \o ToString(req.location[1]) \o "%2C"
        \o ToString(req.location[2]) \o "&radius=" \o req.radius \o "&type=" \o req.type
        \o "&keyword=historic+heritage+monument+museum+archaeological+temple+fort+palace"
        \o "&key=" \o req.key

\* encodeURIComponent(targetUrl)
encodedTargetUrl(req) ==
    "https%3A%2F%2Fmaps.googleapis.com%2Fmaps%2Fapi%2Fplace%2Fnearbysearch%2Fjson"
        \o "%3Flocation%3D" \o ToString(req.location[1]) \o "%252C"
        \o ToString(req.location[2]) \o "%26radius%3D" \o req.radius
        \o "%26type%3D" \o req.type
        \o "%26keyword%3Dhistoric%2Bheritage%2Bmonument%2Bmuseum%2Barchaeological%2Btemple%2Bfort%2Bpalace"
        \o "%26key%3D" \o req.key

\* fullUrl (lines 224-227)
fullUrl(req) ==
    IF req.encoded THEN req.proxy \o encodedTargetUrl(req)
    ELSE req.proxy \o targetUrl(req)

\* Mutant: the URL of the request is logged before the fetch, as the earlier
\* variant did (line 656).
Invoke_logsUrl ==
    /\ pc = "idle"
    /\ IF ~KeyConfigured(apiKey)
       THEN /\ Return(getFallbackHistoricPlaces(latitude, longitude), "nokey")
            /\ logs' = Append(logs, NoKeyLog)
            /\ UNCHANGED <<i, requests>>
       ELSE /\ i' = 0
            /\ requests' = Append(requests, RequestFor(0, latitude, longitude, apiKey))
            /\ pc' = "fetch"
            /\ logs' = Append(logs, LogEvent("log", 656, "Fetching from: ${fullUrl}",
                                   <<fullUrl(RequestFor(0, latitude, longitude, apiKey))>>))
            /\ UNCHANGED <<settled, result, source>>
    /\ UNCHANGED <<apiKey, latitude, longitude, outcomes, response>>

\* Mutant: the four proxies are requested at once and raced.
Invoke_races ==
    /\ pc = "idle"
    /\ IF ~KeyConfigured(apiKey)
       THEN /\ Return(getFallbackHistoricPlaces(latitude, longitude), "nokey")
            /\ logs' = Append(logs, NoKeyLog)
            /\ UNCHANGED <<i, requests>>
       ELSE /\ i' = 0
            /\ requests' = [k \in 1..Len(corsProxies) |->
                               RequestFor(k - 1, latitude, longitude, apiKey)]
            /\ pc' = "fetch"
            /\ UNCHANGED <<settled, result, source, logs>>
    /\ UNCHANGED <<apiKey, latitude, longitude, outcomes, response>>

\* lines 182-236: the call up to the first await
Invoke ==
    /\ pc = "idle"
    /\ IF ~KeyConfigured(apiKey)
       THEN /\ Return(getFallbackHistoricPlaces(latitude, longitude), "nokey")
            /\ logs' = Append(logs, NoKeyLog)
            /\ UNCHANGED <<i, requests>>
       ELSE /\ i' = 0
            /\ requests' = Append(requests, RequestFor(0, latitude, longitude, apiKey))
            /\ pc' = "fetch"
            /\ UNCHANGED <<settled, result, source, logs>>
    /\ UNCHANGED <<apiKey, latitude, longitude, outcomes, response>>

\* Mutant: a transport failure makes the loop request the same proxy again.
FetchRejects_retries ==
    /\ pc = "fetch"
    /\ outcomes' = Append(outcomes, "transport")
    /\ requests' = Append(requests, RequestFor(i, latitude, longitude, apiKey))
    /\ logs' = Append(logs, FailureLog("transport"))
    /\ response' = NoBody
    /\ UNCHANGED <<pc, i, settled, result, source, apiKey, latitude, longitude>>

\* `await fetch(fullUrl, fetchOptions)` rejects: a transport failure
FetchRejects ==
    /\ pc = "fetch"
    /\ catchProxyError("transport")
    /\ response' = NoBody
    /\ UNCHANGED <<apiKey, latitude, longitude>>

\* `await fetch(...)` resolves; lines 240-243 test response.ok
FetchResolves ==
    /\ pc = "fetch"
    /\ \E ok \in BOOLEAN :
        IF ~ok
        THEN Continue("http")
        ELSE /\ pc' = "json"
             /\ UNCHANGED <<i, requests, outcomes, settled, result, source, logs>>
    /\ response' = NoBody
    /\ UNCHANGED <<apiKey, latitude, longitude>>

\* the parameters and locals of one invocation of fetchHistoricPlacesWithCORS,
\* with what it requested and how it settled
Frame(p, lat, lon, ix, reqs, outs, resp, st, res, src, lg) ==
    [ pc |-> p, latitude |-> lat, longitude |-> lon, i |-> ix, requests |-> reqs,
      outcomes |-> outs, response |-> resp, settled |-> st, result |-> res,
      source |-> src, logs |-> lg ]

\* the frame of the call that is running
RunningFrame ==
    Frame(pc, latitude, longitude, i, requests, outcomes, response, settled,
          result, source, logs)

\* the frame of a call that has not started, and (NoFrame) no second call
IdleFrame(lat, lon) ==
    Frame("idle", lat, lon, 0, <<>>, <<>>, NoBody, "pending", None, "none", <<>>)
NoFrame == IdleFrame(0, 0)

\* Mutant: the loop index is one variable of the module, not a local of the
\* invocation.
Resume_sharedIndex(frame) ==
    /\ pc' = frame.pc /\ latitude' = frame.latitude /\ longitude' = frame.longitude
    /\ i' = i /\ requests' = frame.requests /\ outcomes' = frame.outcomes
    /\ response' = frame.response /\ settled' = frame.settled
    /\ result' = frame.result /\ source' = frame.source /\ logs' = frame.logs

\* the event loop runs the continuation of an invocation: its parameters and
\* locals are those of its own closure
Resume(frame) ==
    /\ pc' = frame.pc /\ latitude' = frame.latitude /\ longitude' = frame.longitude
    /\ i' = frame.i /\ requests' = frame.requests /\ outcomes' = frame.outcomes
    /\ response' = frame.response /\ settled' = frame.settled
    /\ result' = frame.result /\ source' = frame.source /\ logs' = frame.logs

(***************************************************************************)
(* Provider candidates (GooglePlaceResponse) used as inputs                 *)
(***************************************************************************)
txtInn      == <<"I","n","n">>
txtOldFort  == <<"O","l","d"," ","F","O","R","T">>
txtCastle   == <<"c","a","s","t","l","e">>
txtShrine   == <<"s","h","r","U+0131","n","e">>      \* "shr" + dotless i + "ne"
txtTombRd   == <<"T","o","m","b"," ","R","d">>
txtEmpty    == <<>>
txtAddress  == <<"T","e","m","p","l","e"," ","S","t",","," ","C","i","t","y">>

Candidate(id, nm, tps, vic, addr, rat) ==
    [ place_id |-> id, name |-> nm, types |-> tps, vicinity |-> vic,
      formatted_address |-> addr,
      geometry |-> Some([lat |-> 0, lng |-> 0]),
      rating |-> rat, user_ratings_total |-> None, business_status |-> None,
      opening_hours |-> None, photos |-> None ]

\* the candidate held while convertGooglePlaceToLocation is not exercised
placeNone == Candidate("", txtEmpty, None, None, None, None)

FilterPool ==
    { Candidate("a", txtInn, Some(<<"tourist_attraction">>), None, None, None),
      Candidate("b", txtInn, Some(<<"park", "museum">>), None, None, None),
      Candidate("c", txtInn, Some(<<"place_of_worship">>), None, None, None),
      Candidate("d", txtInn, Some(<<"store", "establishment">>), None, None, None),
      Candidate("e", txtInn, Some(<<"point_of_interest">>), None, None, None),
      Candidate("f", txtInn, Some(<<"hindu_temple">>), None, None, None),
      Candidate("g", txtOldFort, Some(<<"park">>), None, None, None),
      Candidate("h", txtInn, Some(<<"park">>), Some(txtTombRd), None, None),
      Candidate("i", txtInn, Some(<<"park">>), Some(txtEmpty), Some(txtAddress), None),
      Candidate("j", txtInn, Some(<<"park">>), None, Some(txtAddress), None),
      Candidate("k", txtInn, Some(<<"park">>), None, None, None),
      Candidate("l", txtShrine, Some(<<>>), None, None, None),
      Candidate("m", txtInn, Some(<<"park">>), None, None, Some(45)),
      Candidate("n", txtCastle, Some(<<"park">>), None, None, None) }

\* the longest list handed to filterHistoricPlaces
MaxPlaces == 2

ListsOver(S, n) == UNION { [1..m -> S] : m \in 0..n }

(***************************************************************************)
(* Case changes of a text field: the inputs of the case-invariance claim.   *)
(* toUpperCase is String.prototype.toUpperCase: U+0131 (dotless i) maps to  *)
(* "I" and U+017F (long s) to "S".  The ASCII forms touch A-Z / a-z only.   *)
(***************************************************************************)
asciiLowerChar(ch) ==
    IF \E k \in 1..Len(UpperAlpha) : UpperAlpha[k] = ch
    THEN LowerAlpha[CHOOSE k \in 1..Len(UpperAlpha) : UpperAlpha[k] = ch]
    ELSE ch

asciiUpperChar(ch) ==
    IF \E k \in 1..Len(LowerAlpha) : LowerAlpha[k] = ch
    THEN UpperAlpha[CHOOSE k \in 1..Len(LowerAlpha) : LowerAlpha[k] = ch]
    ELSE ch

toUpperChar(ch) ==
    IF ch = "U+0131" THEN "I"
    ELSE IF ch = "U+017F" THEN "S"
    ELSE asciiUpperChar(ch)

CaseOps == {"asciiUpper", "asciiLower", "toUpperCase", "toLowerCase"}
AsciiCaseOps == {"asciiUpper", "asciiLower"}

ChangeCase(op, s) ==
    [k \in 1..Len(s) |->
        CASE op = "asciiUpper"  -> asciiUpperChar(s[k])
          [] op = "asciiLower"  -> asciiLowerChar(s[k])
          [] op = "toUpperCase" -> toUpperChar(s[k])
          [] op = "toLowerCase" -> toLowerChar(s[k])]

Recased(op, field, place) ==
    IF field = "name"
    THEN [place EXCEPT !.name = ChangeCase(op, @)]
    ELSE [place EXCEPT !.vicinity = IF IsSome(@) THEN Some(ChangeCase(op, Get(@))) ELSE @]

RecasedList(op, field, list) == [k \in 1..Len(list) |-> Recased(op, field, list[k])]

(***************************************************************************)
(* Initial values of the groups of variables when a specification            *)
(* does not exercise them                                                   *)
(***************************************************************************)
CallIdle ==
    /\ pc = "idle" /\ apiKey = "" /\ latitude = 0 /\ longitude = 0
    /\ i = 0 /\ requests = <<>> /\ outcomes = <<>> /\ response = NoBody
    /\ settled = "pending" /\ result = None /\ source = "none" /\ logs = <<>>

FilterIdle ==
    /\ places = <<>> /\ kept = <<>> /\ keptBefore = <<>>
    /\ recase = <<"none", "none">> /\ fpc = "input"

GeoIdle ==
    /\ pA = <<0, 0>> /\ pB = <<0, 0>> /\ meters = 0
    /\ dAB = 0 /\ dBA = 0 /\ label = "" /\ gpc = "input"

ConvIdle ==
    /\ candidate = placeNone /\ twin = placeNone
    /\ converted = None /\ convertedTwin = None /\ cpc = "input"

SeedIdle == seedCalls = <<>> /\ seeds = <<>>

TwoIdle == current = 1 /\ parked = NoFrame /\ provider = <<>>

HomeIdle ==
    /\ hpc = "init" /\ userLocation = None /\ loading = FALSE
    /\ loadingPlaces = FALSE /\ historicPlacesState = <<>> /\ loads = <<>> /\ shown = 0

(***************************************************************************)
(* Spec: one discovery call against every behaviour of the four proxies.    *)
(***************************************************************************)
txtCharminar == <<"C","h","a","r","m","i","n","a","r">>
txtCharminarRd == <<"C","h","a","r","m","i","n","a","r"," ","R","d",","," ","H","y","d","e","r","a","b","a","d">>

\* a relevant candidate with every optional field but vicinity, 0.01 degree
\* north of the first anchor
placeCharminar ==
    [ place_id |-> "ChIJ-charminar", name |-> txtCharminar,
      types |-> Some(<<"tourist_attraction">>), vicinity |-> None,
      formatted_address |-> Some(txtCharminarRd),
      geometry |-> Some([lat |-> 173950, lng |-> 784867]),
      rating |-> Some(45), user_ratings_total |-> Some(8234),
      business_status |-> Some("OPERATIONAL"), opening_hours |-> Some(TRUE),
      photos |-> Some(<<"photo-ref-1">>) ]

\* a candidate the filter drops
placeInn ==
    [ Candidate("ChIJ-inn", txtInn, Some(<<"park">>), None, None, None)
        EXCEPT !.geometry = Some([lat |-> 173900, lng |-> 784817]) ]

\* a worship site at the first anchor itself, without photos
placeTemple ==
    [ Candidate("ChIJ-temple", txtOldFort, Some(<<"hindu_temple", "place_of_worship">>),
                Some(txtTombRd), None, None)
        EXCEPT !.geometry = Some([lat |-> 173850, lng |-> 784867]) ]

\* candidates that do not match GooglePlaceResponse
placeNoTypes == [placeCharminar EXCEPT !.place_id = "ChIJ-notypes", !.types = None]
placeNoGeometry == [placeCharminar EXCEPT !.place_id = "ChIJ-nogeo", !.geometry = None]
placeInnNoGeometry == [placeInn EXCEPT !.place_id = "ChIJ-inn-nogeo", !.geometry = None]

\* a relevant candidate whose place_id is the empty string
placeNoId == [placeTemple EXCEPT !.place_id = ""]

GoodPool == {placeCharminar, placeInn, placeTemple}

\* the longest well-formed results array of a payload
MaxResults == 2

ResultLists ==
    ListsOver(GoodPool, MaxResults)
        \cup { <<placeNoTypes>>, <<placeCharminar, placeNoGeometry>>,
               <<placeInnNoGeometry>>, <<placeInnNoGeometry, placeTemple>>,
               <<placeNoId>> }

DataBodies ==
    { DataBody("OK", Some(l), None) : l \in ResultLists }
        \cup { DataBody("OK", None, None),
               DataBody("ZERO_RESULTS", Some(<<>>), None),
               DataBody("UNKNOWN_ERROR", Some(<<placeCharminar>>), None),
               DataBody("REQUEST_DENIED", None, Some("The provided API key is invalid.")) }

\* the bodies a proxy may answer with
BodiesFor(corsProxy) ==
    IF isAllOrigins(corsProxy)
    THEN { NotJson, JsonNull, DataBody("OK", Some(<<placeCharminar>>), None),
           WrapperBody(404, DataBody("OK", Some(<<placeCharminar>>), None)),
           WrapperBody(0, JsonNull) }
           \cup { WrapperBody(200, b) : b \in DataBodies \cup {NotJson, JsonNull} }
    ELSE { NotJson, JsonNull,
           WrapperBody(200, DataBody("OK", Some(<<placeCharminar>>), None)) }
           \cup DataBodies

Anchors == { <<173850, 784867>>, <<0, 0>> }
Keys == { None, Some(""), Some("AIza-key") }

\* Mutant: the `return locations` is missing; the loop goes on.
JsonSettles_noReturn ==
    /\ pc = "json"
    /\ \E body \in BodiesFor(corsProxies[i + 1]) :
        LET how == Classify(corsProxies[i + 1], body)
        IN  /\ response' = body
            /\ IF how \in {"parse", "shape"}
               THEN catchProxyError(how)
               ELSE Continue(how)
    /\ UNCHANGED <<apiKey, latitude, longitude>>

\* Mutant: an empty list of locations is treated as a failed path.
JsonSettles_emptyFails ==
    /\ pc = "json"
    /\ \E body \in BodiesFor(corsProxies[i + 1]) :
        LET how == Classify(corsProxies[i + 1], body)
        IN  /\ response' = body
            /\ IF how = "ok" /\ LocationsOf(Unwrapped(corsProxies[i + 1], body),
                                            latitude, longitude, apiKey) # <<>>
               THEN /\ Return(LocationsOf(Unwrapped(corsProxies[i + 1], body),
                                          latitude, longitude, apiKey), "path")
                    /\ outcomes' = Append(outcomes, "ok")
                    /\ UNCHANGED <<i, requests, logs>>
               ELSE IF how \in {"parse", "shape"}
               THEN catchProxyError(how)
               ELSE Continue(how)
    /\ UNCHANGED <<apiKey, latitude, longitude>>

\* lines 245-281 for the body that `await response.json()` delivers
JsonSettlesWith(body) ==
    LET how == Classify(corsProxies[i + 1], body)
    IN  /\ response' = body
        /\ IF how = "ok"
           THEN /\ Return(LocationsOf(Unwrapped(corsProxies[i + 1], body),
                                      latitude, longitude, apiKey), "path")
                /\ outcomes' = Append(outcomes, "ok")
                /\ UNCHANGED <<i, requests, logs>>
           ELSE IF how \in {"parse", "shape"}
           THEN catchProxyError(how)
           ELSE Continue(how)
        /\ UNCHANGED <<apiKey, latitude, longitude>>

\* `await response.json()` settles; lines 245-281
JsonSettles ==
    /\ pc = "json"
    /\ \E body \in BodiesFor(corsProxies[i + 1]) : JsonSettlesWith(body)

Init ==
    /\ FilterIdle /\ GeoIdle /\ ConvIdle /\ SeedIdle /\ TwoIdle /\ HomeIdle
    /\ pc = "idle"
    /\ apiKey \in Keys
    /\ \E anchor \in Anchors : latitude = anchor[1] /\ longitude = anchor[2]
    /\ i = 0 /\ requests = <<>> /\ outcomes = <<>> /\ response = NoBody
    /\ settled = "pending" /\ result = None /\ source = "none" /\ logs = <<>>

Next ==
    \/ (Invoke /\ UNCHANGED <<filterVars, geoVars, convVars, seedVars, twoVars, homeVars>>)
    \/ (FetchRejects /\ UNCHANGED <<filterVars, geoVars, convVars, seedVars, twoVars, homeVars>>)
    \/ (FetchResolves /\ UNCHANGED <<filterVars, geoVars, convVars, seedVars, twoVars, homeVars>>)
    \/ (JsonSettles /\ UNCHANGED <<filterVars, geoVars, convVars, seedVars, twoVars, homeVars>>)

Spec == Init /\ [][Next]_vars

(***************************************************************************)
(* SpecLive: one discovery call whose every await settles.  Invoke is the   *)
(* call itself; a pending fetch() and a pending response.json() are         *)
(* settled by the host, so a step of the call that is possible is           *)
(* eventually taken.                                                        *)
(***************************************************************************)
SpecLive == Init /\ [][Next]_vars /\ WF_vars(Next)

(***************************************************************************)
(* SpecFilter: filterHistoricPlaces on every list of at most MaxPlaces       *)
(* candidates, then again on the same list with the case of one text field  *)
(* changed.                                                                 *)
(***************************************************************************)
InitFilter ==
    /\ CallIdle /\ GeoIdle /\ ConvIdle /\ SeedIdle /\ TwoIdle /\ HomeIdle
    /\ places \in ListsOver(FilterPool, MaxPlaces)
    /\ kept = <<>> /\ keptBefore = <<>>
    /\ recase = <<"none", "none">> /\ fpc = "input"

ApplyFilter ==
    /\ fpc = "input"
    /\ kept' = filterHistoricPlaces(places)
    /\ fpc' = "filtered"
    /\ UNCHANGED <<places, keptBefore, recase>>

RecaseAndFilter ==
    /\ fpc = "filtered"
    /\ \E op \in CaseOps, field \in {"name", "vicinity"} :
        /\ recase' = <<op, field>>
        /\ places' = RecasedList(op, field, places)
        /\ keptBefore' = kept
        /\ kept' = filterHistoricPlaces(RecasedList(op, field, places))
    /\ fpc' = "recased"

NextFilter ==
    \/ (ApplyFilter /\ UNCHANGED <<callVars, geoVars, convVars, seedVars, twoVars, homeVars>>)
    \/ (RecaseAndFilter /\ UNCHANGED <<callVars, geoVars, convVars, seedVars, twoVars, homeVars>>)

SpecFilter == InitFilter /\ [][NextFilter]_vars

(***************************************************************************)
(* SpecFormat: the distance label of every distance up to MaxMeters and of  *)
(* a few long ones.                                                         *)
(***************************************************************************)
MaxMeters == 2100
FarMeters == {9949, 9950, 9951, 10250, 99950, 1234567, 20015087}

InitFormat ==
    /\ CallIdle /\ FilterIdle /\ ConvIdle /\ SeedIdle /\ TwoIdle /\ HomeIdle
    /\ meters \in (0..MaxMeters) \cup FarMeters
    /\ pA = <<0, 0>> /\ pB = <<0, 0>> /\ dAB = 0 /\ dBA = 0
    /\ label = "" /\ gpc = "input"

Format ==
    /\ gpc = "input"
    /\ label' = formatDistance(meters)
    /\ gpc' = "formatted"
    /\ UNCHANGED <<pA, pB, meters, dAB, dBA>>

NextFormat == Format /\ UNCHANGED <<callVars, filterVars, convVars, seedVars, twoVars, homeVars>>

SpecFormat == InitFormat /\ [][NextFormat]_vars

(***************************************************************************)
(* SpecGeo: calculateDistance between every two of a few coordinates, in    *)
(* both directions, and the label of the distance.                          *)
(***************************************************************************)
GeoPoints ==
    { <<173850, 784867>>,      \* the anchor of the end-to-end scenario
      <<173950, 784867>>,      \* 0.01 degree north of it
      <<173900, 784817>>,      \* a seed offset away
      <<0, 0>>,
      <<0, 1799000>>,
      <<600000, -1200000>>,
      <<-450000, 300000>>,
      <<515000, -1200>>,
      <<900000, 0>> }

InitGeo ==
    /\ CallIdle /\ FilterIdle /\ ConvIdle /\ SeedIdle /\ TwoIdle /\ HomeIdle
    /\ pA \in GeoPoints /\ pB \in GeoPoints
    /\ meters = 0 /\ dAB = 0 /\ dBA = 0 /\ label = "" /\ gpc = "input"

Measure ==
    /\ gpc = "input"
    /\ dAB' = calculateDistance(pA[1], pA[2], pB[1], pB[2])
    /\ dBA' = calculateDistance(pB[1], pB[2], pA[1], pA[2])
    /\ gpc' = "measured"
    /\ UNCHANGED <<pA, pB, meters, label>>

LabelMeasured ==
    /\ gpc = "measured"
    /\ meters' = dAB
    /\ label' = formatDistance(dAB)
    /\ gpc' = "formatted"
    /\ UNCHANGED <<pA, pB, dAB, dBA>>

NextGeo ==
    \/ (Measure /\ UNCHANGED <<callVars, filterVars, convVars, seedVars, twoVars, homeVars>>)
    \/ (LabelMeasured /\ UNCHANGED <<callVars, filterVars, convVars, seedVars, twoVars, homeVars>>)

SpecGeo == InitGeo /\ [][NextGeo]_vars

(***************************************************************************)
(* SpecConvert: convertGooglePlaceToLocation on one candidate, then on the  *)
(* same candidate with other rating, status, opening and photo fields.      *)
(***************************************************************************)
txtPalace == <<"L","a","k","e"," ","P","A","L","A","C","E">>
txtThreeParts == <<"1","2"," ","M","a","i","n"," ","R","d",","," ","O","l","d"," ","C","i","t","y"," ",",","H","y","d","e","r","a","b","a","d">>
txtNoComma == <<"H","y","d","e","r","a","b","a","d">>

ConvTypes ==
    { None, Some(<<>>), Some(<<"park">>),
      Some(<<"hindu_temple">>), Some(<<"place_of_worship">>),
      Some(<<"place_of_worship", "tourist_attraction">>),
      Some(<<"museum", "hindu_temple">>),
      Some(<<"historical_landmark">>),
      Some(<<"historical_landmark", "place_of_worship">>) }

ConvNames == { txtInn, txtOldFort, txtPalace, txtCharminar }

\* place.photos: absent, empty, or photo references
ConvPhotos == { None, Some(<<>>), Some(<<"photo-ref-1", "photo-ref-2">>) }

\* <<vicinity, formatted_address>>
ConvAddresses ==
    { <<None, None>>, <<Some(txtTombRd), Some(txtCharminarRd)>>,
      <<Some(txtEmpty), Some(txtThreeParts)>>, <<None, Some(txtCharminarRd)>>,
      <<None, Some(txtNoComma)>>, <<None, Some(txtEmpty)>> }

ConvCandidate(tps, nm, ph, va) ==
    [ Candidate("ChIJ-conv", nm, tps, va[1], va[2], None)
        EXCEPT !.geometry = Some([lat |-> 173950, lng |-> 784867]), !.photos = ph ]

ConvPool ==
    { ConvCandidate(tps, nm, ph, <<None, None>>) :
          tps \in ConvTypes, nm \in ConvNames, ph \in ConvPhotos }
      \cup { ConvCandidate(tps, txtInn, None, va) : tps \in ConvTypes, va \in ConvAddresses }

\* values of the fields that the description is claimed not to depend on
MetaVariants ==
    { [ rating |-> Some(45), user_ratings_total |-> Some(8234),
        business_status |-> Some("OPERATIONAL"), opening_hours |-> Some(TRUE),
        photos |-> None ],
      [ rating |-> Some(12), user_ratings_total |-> None,
        business_status |-> Some("CLOSED_TEMPORARILY"), opening_hours |-> Some(FALSE),
        photos |-> Some(<<"photo-ref-9">>) ],
      [ rating |-> None, user_ratings_total |-> Some(3),
        business_status |-> None, opening_hours |-> None,
        photos |-> Some(<<>>) ] }

WithMeta(place, m) ==
    [ place EXCEPT !.rating = m.rating, !.user_ratings_total = m.user_ratings_total,
                   !.business_status = m.business_status,
                   !.opening_hours = m.opening_hours, !.photos = m.photos ]

InitConvert ==
    /\ FilterIdle /\ GeoIdle /\ SeedIdle /\ TwoIdle /\ HomeIdle
    /\ pc = "idle" /\ apiKey \in Keys
    /\ latitude = 173850 /\ longitude = 784867
    /\ i = 0 /\ requests = <<>> /\ outcomes = <<>> /\ response = NoBody
    /\ settled = "pending" /\ result = None /\ source = "none" /\ logs = <<>>
    /\ candidate \in ConvPool /\ twin = placeNone
    /\ converted = None /\ convertedTwin = None /\ cpc = "input"

Convert ==
    /\ cpc = "input"
    /\ converted' = Some(convertGooglePlaceToLocation(candidate, latitude, longitude, apiKey))
    /\ cpc' = "converted"
    /\ UNCHANGED <<candidate, twin, convertedTwin>>

ConvertTwin ==
    /\ cpc = "converted"
    /\ \E m \in MetaVariants :
        /\ twin' = WithMeta(candidate, m)
        /\ convertedTwin' =
              Some(convertGooglePlaceToLocation(WithMeta(candidate, m),
                                                latitude, longitude, apiKey))
    /\ cpc' = "compared"
    /\ UNCHANGED <<candidate, converted>>

\* a place of the seed list, as the call returns it without a candidate
TakeSeed ==
    /\ cpc = "input"
    /\ \E k \in 1..Len(getFallbackHistoricPlaces(latitude, longitude)) :
        converted' = Some(getFallbackHistoricPlaces(latitude, longitude)[k])
    /\ cpc' = "seed"
    /\ UNCHANGED <<candidate, twin, convertedTwin>>

NextConvert ==
    \/ (Convert /\ UNCHANGED <<callVars, filterVars, geoVars, seedVars, twoVars, homeVars>>)
    \/ (TakeSeed /\ UNCHANGED <<callVars, filterVars, geoVars, seedVars, twoVars, homeVars>>)
    \/ (ConvertTwin /\ UNCHANGED <<callVars, filterVars, geoVars, seedVars, twoVars, homeVars>>)

SpecConvert == InitConvert /\ [][NextConvert]_vars

(***************************************************************************)
(* SpecSeed: getFallbackHistoricPlaces called up to MaxSeedCalls times,     *)
(* each time with any of a few anchors.                                     *)
(***************************************************************************)
MaxSeedCalls == 2

SeedAnchors ==
    { <<173850, 784867>>, <<173851, 784867>>, <<0, 0>>, <<515000, -1200>>,
      <<-338700, 1512100>>, <<899950, 1799950>>, <<-900000, -1800000>>,
      <<407128, -740060>>, <<100, -100>>, <<-50, 50>> }

CallSeed ==
    /\ Len(seedCalls) < MaxSeedCalls
    /\ \E anchor \in SeedAnchors :
        /\ seedCalls' = Append(seedCalls, anchor)
        /\ seeds' = Append(seeds, getFallbackHistoricPlaces(anchor[1], anchor[2]))

InitSeed == CallIdle /\ FilterIdle /\ GeoIdle /\ ConvIdle /\ SeedIdle /\ TwoIdle /\ HomeIdle

NextSeed == CallSeed /\ UNCHANGED <<callVars, filterVars, geoVars, convVars, twoVars, homeVars>>

SpecSeed == InitSeed /\ [][NextSeed]_vars

(***************************************************************************)
(* SpecTwo: two discovery calls in flight at once.  Each piece of code      *)
(* between two awaits runs to its end; between two pieces the event loop    *)
(* may run a piece of the other call.  The provider data is the same for    *)
(* both calls: path k answers both with provider[k].                        *)
(***************************************************************************)
Answer(f, b) == [fetch |-> f, body |-> b]

\* what a proxy path may answer with in this specification
AnswersFor(k) ==
    CASE k = 1 -> { Answer("reject", NoBody),
                    Answer("ok", WrapperBody(404, DataBody("OK", Some(<<placeCharminar>>), None))),
                    Answer("ok", WrapperBody(200, DataBody("OK", Some(<<placeCharminar, placeTemple>>), None))) }
      [] k = 2 -> { Answer("http", NoBody),
                    Answer("ok", DataBody("ZERO_RESULTS", Some(<<>>), None)),
                    Answer("ok", DataBody("OK", Some(<<placeTemple>>), None)) }
      [] k = 3 -> { Answer("reject", NoBody),
                    Answer("ok", DataBody("OK", Some(<<placeInn>>), None)) }
      [] k = 4 -> { Answer("http", NoBody), Answer("ok", NotJson),
                    Answer("ok", DataBody("OK", Some(<<placeCharminar>>), None)) }

Providers ==
    { <<a, b, c, d>> : a \in AnswersFor(1), b \in AnswersFor(2),
                       c \in AnswersFor(3), d \in AnswersFor(4) }

InitTwo ==
    /\ FilterIdle /\ GeoIdle /\ ConvIdle /\ SeedIdle /\ HomeIdle
    /\ provider \in Providers
    /\ apiKey \in Keys
    /\ current = 1
    /\ \E anchor \in Anchors : parked = IdleFrame(anchor[1], anchor[2])
    /\ pc = "idle" /\ latitude = 173850 /\ longitude = 784867
    /\ i = 0 /\ requests = <<>> /\ outcomes = <<>> /\ response = NoBody
    /\ settled = "pending" /\ result = None /\ source = "none" /\ logs = <<>>

\* the event loop turns to the other call
Switch ==
    /\ parked' = RunningFrame
    /\ Resume(parked)
    /\ current' = 3 - current
    /\ UNCHANGED <<apiKey, provider>>

InvokeOne == Invoke /\ UNCHANGED twoVars

FetchRejectsAsProvided ==
    /\ pc = "fetch" /\ provider[i + 1].fetch = "reject"
    /\ FetchRejects
    /\ UNCHANGED twoVars

FetchResolvesAsProvided ==
    /\ pc = "fetch" /\ provider[i + 1].fetch # "reject"
    /\ FetchResolves
    /\ (pc' = "json") <=> (provider[i + 1].fetch = "ok")
    /\ UNCHANGED twoVars

JsonSettlesAsProvided ==
    /\ pc = "json"
    /\ provider[i + 1].body \in BodiesFor(corsProxies[i + 1])
    /\ JsonSettlesWith(provider[i + 1].body)
    /\ UNCHANGED twoVars

NextTwo ==
    \/ (Switch /\ UNCHANGED <<filterVars, geoVars, convVars, seedVars, homeVars>>)
    \/ (InvokeOne /\ UNCHANGED <<filterVars, geoVars, convVars, seedVars, homeVars>>)
    \/ (FetchRejectsAsProvided /\ UNCHANGED <<filterVars, geoVars, convVars, seedVars, homeVars>>)
    \/ (FetchResolvesAsProvided /\ UNCHANGED <<filterVars, geoVars, convVars, seedVars, homeVars>>)
    \/ (JsonSettlesAsProvided /\ UNCHANGED <<filterVars, geoVars, convVars, seedVars, homeVars>>)

SpecTwo == InitTwo /\ [][NextTwo]_vars

(***************************************************************************)
(* SpecHome: HomeScreen (screens/HomeScreen.tsx).  The hook useUserLocation *)
(* asks the browser for the position on mount and on every click of the     *)
(* current-location button; every position it is given is a new object, so  *)
(* the effect that depends on userLocation runs and calls                   *)
(* loadHistoricPlaces, which awaits fetchHistoricPlacesWithCORS.  The       *)
(* discovery calls are promises of their own and settle in any order.       *)
(***************************************************************************)
\* the most invocations of loadHistoricPlaces in one behaviour
MaxLoads == 3

\* what fetchHistoricPlacesWithCORS(lat, lon) may resolve with: the seed set,
\* no place, or the places of a provider payload
LoadResults(lat, lon) ==
    { getFallbackHistoricPlaces(lat, lon), <<>>,
      LocationsOf(DataBody("OK", Some(<<placeCharminar>>), None), lat, lon, Some("AIza-key")) }

InitHome ==
    /\ CallIdle /\ FilterIdle /\ GeoIdle /\ ConvIdle /\ SeedIdle /\ TwoIdle
    /\ hpc = "init" /\ userLocation = None /\ loading = FALSE
    /\ loadingPlaces = FALSE /\ historicPlacesState = <<>> /\ loads = <<>> /\ shown = 0

\* getCurrentLocation (lines 192-221) up to navigator.geolocation.getCurrentPosition
getCurrentLocation == loading' = TRUE

\* the effect of lines 316-321 on mount
Mount ==
    /\ hpc = "init"
    /\ hpc' = "mounted"
    /\ getCurrentLocation
    /\ UNCHANGED <<userLocation, loadingPlaces, historicPlacesState, loads, shown>>

\* handleCurrentLocationClick (lines 335-337); the button is disabled while
\* `loading` (lines 421-422, 605-606)
ClickCurrentLocation ==
    /\ hpc = "mounted" /\ ~loading
    /\ Len(loads) < MaxLoads
    /\ getCurrentLocation
    /\ UNCHANGED <<hpc, userLocation, loadingPlaces, historicPlacesState, loads, shown>>

\* loadHistoricPlaces (lines 291-297) up to `await fetchHistoricPlacesWithCORS`
loadHistoricPlaces(lat, lon) ==
    /\ loadingPlaces' = TRUE
    /\ loads' = Append(loads, [latitude |-> lat, longitude |-> lon, state |-> "pending"])

\* the success callback of getCurrentPosition (lines 203-210), with the effect
\* of lines 324-333 that the new userLocation object triggers
PositionSuccess ==
    /\ hpc = "mounted" /\ loading
    /\ \E pos \in Anchors :
        /\ userLocation' = Some([latitude |-> pos[1], longitude |-> pos[2],
                                 fix |-> Len(loads) + 1])
        /\ loadHistoricPlaces(pos[1], pos[2])
    /\ loading' = FALSE
    /\ UNCHANGED <<hpc, historicPlacesState, shown>>

\* the error callback of getCurrentPosition (lines 211-214)
PositionError ==
    /\ hpc = "mounted" /\ loading
    /\ loading' = FALSE
    /\ UNCHANGED <<hpc, userLocation, loadingPlaces, historicPlacesState, loads, shown>>

\* the await of invocation k of loadHistoricPlaces settles (lines 297-311)
LoadSettles ==
    \E k \in 1..Len(loads) :
        /\ loads[k].state = "pending"
        /\ \E list \in LoadResults(loads[k].latitude, loads[k].longitude) :
              historicPlacesState' = list
        /\ shown' = k
        /\ loadingPlaces' = FALSE
        /\ loads' = [loads EXCEPT ![k].state = "done"]
        /\ UNCHANGED <<hpc, userLocation, loading>>

NextHome ==
    \/ (Mount /\ UNCHANGED <<callVars, filterVars, geoVars, convVars, seedVars, twoVars>>)
    \/ (ClickCurrentLocation /\ UNCHANGED <<callVars, filterVars, geoVars, convVars, seedVars, twoVars>>)
    \/ (PositionSuccess /\ UNCHANGED <<callVars, filterVars, geoVars, convVars, seedVars, twoVars>>)
    \/ (PositionError /\ UNCHANGED <<callVars, filterVars, geoVars, convVars, seedVars, twoVars>>)
    \/ (LoadSettles /\ UNCHANGED <<callVars, filterVars, geoVars, convVars, seedVars, twoVars>>)

SpecHome == InitHome /\ [][NextHome]_vars

(***************************************************************************)
(* The relevance rule as the specification states it                        *)
(***************************************************************************)
AllowList ==
    {"tourist_attraction", "museum", "place_of_worship", "establishment",
     "point_of_interest"}

HeritageKeywords ==
    { <<"t","e","m","p","l","e">>,
      <<"f","o","r","t">>,
      <<"p","a","l","a","c","e">>,
      <<"m","o","n","u","m","e","n","t">>,
      <<"h","e","r","i","t","a","g","e">>,
      <<"h","i","s","t","o","r","i","c">>,
      <<"a","r","c","h","a","e","o","l","o","g","i","c","a","l">>,
      <<"a","n","c","i","e","n","t">>,
      <<"c","u","l","t","u","r","a","l">>,
      <<"t","o","m","b">>,
      <<"m","o","s","q","u","e">>,
      <<"c","h","u","r","c","h">>,
      <<"c","a","s","t","l","e">>,
      <<"c","a","t","h","e","d","r","a","l">>,
      <<"s","h","r","i","n","e">>,
      <<"m","e","m","o","r","i","a","l">> }

Range(f) == { f[x] : x \in DOMAIN f }

Occurs(word, text) ==
    \E a \in 1..Len(text), b \in 1..Len(text) : SubSeq(text, a, b) = word

Relevant(c) ==
    \/ Range(Get(c.types)) \cap AllowList # {}
    \/ \E w \in HeritageKeywords : Occurs(w, toLowerCase(c.name))
    \/ /\ IsSome(c.vicinity)
       /\ \E w \in HeritageKeywords : Occurs(w, toLowerCase(Get(c.vicinity)))

SameDecidingFields(c, d) ==
    c.types = d.types /\ c.name = d.name /\ c.vicinity = d.vicinity

(***************************************************************************)
(* Claims about one discovery call (Spec)                                   *)
(***************************************************************************)
\* the path (counted from 0) that `response` was delivered on
RespondedPath == Len(outcomes) - 1

\* the provider payload that `response` carries when it is what the path it
\* came on is expected to deliver with status "OK": on the allorigins path an
\* envelope with http_code 200 around the payload, else the payload itself
CarriesOkPayload ==
    /\ response.kind # "none"
    /\ IF RespondedPath = 0
       THEN /\ response.kind = "wrapper" /\ response.http_code = 200
            /\ Get(response.inner).kind = "data" /\ Get(response.inner).status = "OK"
       ELSE response.kind = "data" /\ response.status = "OK"
OkPayload == IF RespondedPath = 0 THEN Get(response.inner) ELSE response

WellFormed(c) == IsSome(c.types) /\ IsSome(c.geometry)
\* a valid status "OK" payload: a results array of well-formed candidates
CarriesValidOkPayload ==
    /\ CarriesOkPayload
    /\ IsSome(OkPayload.results)
    /\ \A k \in 1..Len(Get(OkPayload.results)) : WellFormed(Get(OkPayload.results)[k])

SeedIds ==
    << "fallback-historic-1", "fallback-heritage-2", "fallback-temple-3",
       "fallback-fort-4", "fallback-palace-5" >>
IsSeedSet(list) == [k \in 1..Len(list) |-> list[k].id] = SeedIds

\* C1: the call is total: whatever the key configuration, the coordinate and
\* the outcome of each proxy path, the promise never rejects; the call ends
\* only by resolving with a list (never with no value); and as long as it has
\* not ended it is waiting on a request whose every outcome it handles.
C1_Total ==
    /\ settled \in {"pending", "resolved"}
    /\ (pc = "done") <=> (settled = "resolved")
    /\ settled = "resolved" => (IsSome(result) /\ Len(Get(result)) >= 0)
    /\ pc # "done" => ENABLED Next

\* C1 witness: the call resolved after a wrapper failure, a JSON parse
\* failure, a transport failure and a malformed payload.
C1_Witness ==
    /\ settled = "resolved" /\ IsSome(result)
    /\ outcomes = <<"wrapper", "parse", "transport", "shape">>

\* C2: when path i is the first path to deliver a valid status "OK" payload,
\* the call ends there: it returns one place per relevant candidate of exactly
\* that payload, paths 0..i were requested once each in list order, and no
\* path after i is requested.
C2_ShortCircuit ==
    /\ CarriesValidOkPayload =>
          /\ pc = "done" /\ source = "path" /\ i = RespondedPath
          /\ Len(requests) = i + 1
          /\ \A k \in 1..Len(requests) : requests[k].proxy = corsProxies[k]
          /\ [k \in 1..Len(Get(result)) |-> Get(result)[k].id]
               = [k \in 1..Len(SelectSeq(Get(OkPayload.results), Relevant)) |->
                     SelectSeq(Get(OkPayload.results), Relevant)[k].place_id]
    /\ source = "path" =>
          /\ CarriesOkPayload
          /\ \A k \in 1..Len(outcomes) : (outcomes[k] = "ok") <=> (k = Len(outcomes))

\* C2 witness: path 1 was rejected upstream, path 2 delivered an OK payload
\* with two candidates; both places are returned after two requests.
C2_Witness ==
    /\ pc = "done" /\ outcomes = <<"http", "ok">>
    /\ Len(Get(response.results)) = 2 /\ Len(Get(result)) = 2
    /\ Len(requests) = 2

\* C3: when every path fails, the four paths allorigins, corsproxy.io,
\* thingproxy and cors-anywhere are each requested exactly once, in that
\* order, before the call returns the fallback seed set; and no path is ever
\* requested out of that order.
C3_ExhaustionOrder ==
    /\ \A k \in 1..Len(requests) : requests[k].proxy = corsProxies[k]
    /\ (Len(outcomes) = 4 /\ \A k \in 1..4 : outcomes[k] # "ok") =>
          (pc = "done" /\ source = "exhausted")
    /\ source = "exhausted" =>
          /\ [k \in 1..Len(requests) |-> requests[k].proxy]
               = << "https://api.allorigins.win/get?url=", "https://corsproxy.io/?",
                    "https://thingproxy.freeboard.io/fetch/",
                    "https://cors-anywhere.herokuapp.com/" >>
          /\ Len(outcomes) = 4 /\ \A k \in 1..4 : outcomes[k] # "ok"
          /\ IsSeedSet(Get(result))

\* C3 witness: four failed paths, then the seed set.
C3_Witness ==
    /\ pc = "done" /\ source = "exhausted" /\ Len(requests) = 4
    /\ outcomes = <<"status", "http", "transport", "parse">>

\* C4: when a path delivers a status "OK" payload of which no candidate passes
\* the relevance filter (an empty results array included), the call returns
\* the empty list: not the seed set, and no further path is requested.
C4_EmptyIsNotExhaustion ==
    (/\ CarriesValidOkPayload
     /\ \A k \in 1..Len(Get(OkPayload.results)) : ~Relevant(Get(OkPayload.results)[k]))
        => /\ pc = "done" /\ source = "path"
           /\ result = Some(<<>>)
           /\ Len(requests) = RespondedPath + 1

\* C4 witness: an empty results array on the second path, and a payload whose
\* only candidate is irrelevant.
C4_Witness ==
    /\ pc = "done" /\ result = Some(<<>>) /\ Len(requests) = 2
    /\ CarriesValidOkPayload /\ OkPayload.results = Some(<<>>)

\* the offsets of the seed places, in units of 1/CoordScale degree
SeedDeltas == << <<100, 100>>, <<-100, 100>>, <<50, -50>>, <<-50, -100>>, <<80, -80>> >>

\* C5: on total proxy exhaustion the call returns exactly 5 places, the k-th at
\* the requested anchor plus the k-th fixed delta (+0.01,+0.01), (-0.01,+0.01),
\* (+0.005,-0.005), (-0.005,-0.01), (+0.008,-0.008), each of magnitude at most
\* 0.01 degree.
C5_SeedOffsets ==
    source = "exhausted" =>
        /\ Len(Get(result)) = 5
        /\ \A k \in 1..Len(Get(result)) :
              /\ k <= 5
              /\ Get(result)[k].latitude = latitude + SeedDeltas[k][1]
              /\ Get(result)[k].longitude = longitude + SeedDeltas[k][2]
              /\ 100 * Abs(SeedDeltas[k][1]) <= CoordScale
              /\ 100 * Abs(SeedDeltas[k][2]) <= CoordScale

\* C5 witness: exhaustion at the anchor (17.3850, 78.4867).
C5_Witness ==
    /\ source = "exhausted" /\ latitude = 173850 /\ longitude = 784867
    /\ Len(Get(result)) = 5 /\ Get(result)[5].latitude = 173930

\* C6: when no access key is configured (undefined or empty), the call returns
\* the fallback seed set for the requested coordinate and never issues a
\* request to any proxy path.
C6_NoKeyNoRequest ==
    apiKey \in {None, Some("")} =>
        /\ requests = <<>>
        /\ pc = "done" =>
              /\ source = "nokey" /\ IsSeedSet(Get(result))
              /\ Get(result)[1].latitude = latitude + 100
              /\ Get(result)[1].longitude = longitude + 100

\* C6 witness: the call ended without a key and without a request.
C6_Witness ==
    /\ pc = "done" /\ apiKey = Some("") /\ requests = <<>> /\ Len(Get(result)) = 5

\* C13: with a key configured, the anchor (17.3850, 78.4867) and a
\* successful payload whose only candidate is "Charminar" (tourist_attraction,
\* formatted_address "Charminar Rd, Hyderabad", 0.01 degree = 1.11 km due
\* north of the anchor), the call returns exactly one place, named Charminar,
\* with the distance label "1.1km" and a description that contains neither
\* "rated" nor "status".
C13_CharminarScenario ==
    (/\ latitude = 173850 /\ longitude = 784867
     /\ CarriesValidOkPayload /\ OkPayload.results = Some(<<placeCharminar>>))
        => /\ pc = "done" /\ settled = "resolved"
           /\ Len(Get(result)) = 1
           /\ Get(result)[1].name = txtCharminar
           /\ Get(result)[1].distance = "1.1km"
           /\ ~includes(toLowerCase(descriptionText(Get(result)[1].description)),
                        <<"r","a","t","e","d">>)
           /\ ~includes(toLowerCase(descriptionText(Get(result)[1].description)),
                        <<"s","t","a","t","u","s">>)

\* C13 witness: the scenario on the first path; the description reads
\* "Charminar is a renowned heritage site ... Located in Charminar Rd, ...".
C13_Witness ==
    /\ pc = "done" /\ latitude = 173850 /\ KeyConfigured(apiKey)
    /\ outcomes = <<"ok">> /\ Get(response.inner).results = Some(<<placeCharminar>>)
    /\ placeCharminar.types = Some(<<"tourist_attraction">>)
    /\ placeCharminar.formatted_address = Some(txtCharminarRd)
    /\ Len(Get(result)) = 1 /\ Get(result)[1].distance = "1.1km"
    /\ Get(result)[1].description =
          << Txt(txtCharminar),
             Lit(" is a renowned heritage site and tourist destination. "),
             Lit("Located in "), Txt(<<"C","h","a","r","m","i","n","a","r"," ","R","d">>),
             Lit(", "),
             Lit("this site offers visitors a glimpse into the rich history and cultural traditions that have shaped this region over centuries.") >>

\* C15: every place of the returned list has a non-empty id and no two places
\* of the list share an id, whatever the payload (a repeated or an empty
\* place_id included).
C15_IdsNonEmptyUnique ==
    pc = "done" =>
        /\ \A k \in 1..Len(Get(result)) : Get(result)[k].id # ""
        /\ \A j \in 1..Len(Get(result)), k \in 1..Len(Get(result)) :
              Get(result)[j].id = Get(result)[k].id => j = k

\* the texts that hold the access key: the key and the URLs of the requests
KeyBearingTexts ==
    {Get(apiKey)}
        \cup { fullUrl(requests[k]) : k \in 1..Len(requests) }
        \cup { targetUrl(requests[k]) : k \in 1..Len(requests) }
        \cup { encodedTargetUrl(requests[k]) : k \in 1..Len(requests) }

FailedPaths == { k \in 1..Len(outcomes) : outcomes[k] # "ok" }

\* C18: no console event of a call carries the access key or the URL of a
\* request, whatever the outcome of each path; a call with a key emits one
\* event per failed path (HTTP failure, wrapper failure, provider error,
\* thrown error), one more on exhaustion, and none for a successful path.
C18_LogsCarryNoKey ==
    KeyConfigured(apiKey) =>
        /\ LET keyTexts == KeyBearingTexts
           IN  \A e \in 1..Len(logs) :
                  /\ logs[e].text \notin keyTexts
                  /\ \A v \in 1..Len(logs[e].values) : logs[e].values[v] \notin keyTexts
        /\ Len(logs) = Cardinality(FailedPaths) + (IF source = "exhausted" THEN 1 ELSE 0)

\* C18 witness: a wrapper failure, an HTTP failure, a provider error with an
\* error message and a transport failure were logged, then the exhaustion.
C18_Witness ==
    /\ pc = "done" /\ KeyConfigured(apiKey)
    /\ outcomes = <<"wrapper", "http", "status", "transport">>
    /\ Len(logs) = 5 /\ logs[3].values = <<"The provided API key is invalid.">>
    /\ logs[4].values = <<"4", "TypeError: Failed to fetch">>

\* C19: a transport failure (fetch throws) or a non-success HTTP status on
\* path k makes the call advance to path k + 1: it does not reject, it does
\* not return the fallback while a path is untried, and it requests no path a
\* second time.
C19_TransportOrHttpAdvances ==
    \A k \in 1..Len(outcomes) :
        outcomes[k] \in {"transport", "http"} =>
            /\ settled # "rejected"
            /\ Len(requests) <= Len(corsProxies)
            /\ \A j \in 1..Len(requests) : requests[j].proxy = corsProxies[j]
            /\ k < Len(corsProxies) =>
                  /\ Len(requests) >= k + 1
                  /\ source = "exhausted" => Len(requests) = Len(corsProxies)
            /\ (k = Len(corsProxies)) => (pc = "done" /\ source = "exhausted")
            /\ source \in {"none", "path", "exhausted"}

\* C19 witness: the first path failed in transport, the second with an HTTP
\* status, and the call waits on the third.
C19_Witness ==
    /\ pc = "fetch" /\ outcomes = <<"transport", "http">> /\ settled = "pending"
    /\ Len(requests) = 3 /\ requests[3].proxy = "https://thingproxy.freeboard.io/fetch/"

\* the envelope of `response` signals an upstream failure: on the allorigins
\* path a wrapper whose http_code is not 200, on every path a provider
\* payload whose status is not "OK"
EnvelopeFailure ==
    /\ response.kind # "none"
    /\ \/ (RespondedPath = 0 /\ response.kind = "wrapper" /\ response.http_code # 200)
       \/ (RespondedPath = 0 /\ response.kind = "wrapper" /\ response.http_code = 200
             /\ Get(response.inner).kind = "data" /\ Get(response.inner).status # "OK")
       \/ (RespondedPath > 0 /\ response.kind = "data" /\ response.status # "OK")

\* C20: a response whose envelope signals upstream failure makes the call
\* advance to the next path without using any of its results: the path counts
\* as failed, the next path is requested (or, after the last, the seed set is
\* returned), and nothing is returned from that response.
C20_EnvelopeFailureAdvances ==
    EnvelopeFailure =>
        /\ outcomes[Len(outcomes)] \in {"wrapper", "status"}
        /\ source # "path" /\ settled # "rejected"
        /\ RespondedPath + 1 < Len(corsProxies) =>
              /\ pc = "fetch" /\ result = None
              /\ Len(requests) = RespondedPath + 2
              /\ requests[Len(requests)].proxy = corsProxies[RespondedPath + 2]
        /\ RespondedPath + 1 = Len(corsProxies) =>
              /\ pc = "done" /\ source = "exhausted" /\ IsSeedSet(Get(result))

\* C20 witness: the wrapper of the first path reported 404 around an OK
\* payload, the second path reported ZERO_RESULTS, the third UNKNOWN_ERROR
\* with a candidate in its results; the call waits on the fourth path.
C20_Witness ==
    /\ pc = "fetch" /\ outcomes = <<"wrapper", "status", "status">>
    /\ response = DataBody("UNKNOWN_ERROR", Some(<<placeCharminar>>), None)
    /\ logs[2].values = <<"ZERO_RESULTS">> /\ Len(requests) = 4

\* `response` is a decode failure of the path it came on: a body that is no
\* JSON, wrapper contents that are no JSON, or a status "OK" payload without a
\* results array or with a candidate that lacks types or geometry
DecodeFailure ==
    /\ response.kind # "none"
    /\ \/ response.kind = "invalid"
       \/ (RespondedPath = 0 /\ response.kind = "wrapper" /\ response.http_code = 200
             /\ Get(response.inner).kind = "invalid")
       \/ (CarriesOkPayload /\ ~CarriesValidOkPayload)

\* C21: a decode failure on path i (a body that is not valid JSON, wrapper
\* contents that do not re-parse, a status "OK" payload without a results
\* array or with a candidate without types or geometry) is recovered locally
\* and advances to path i + 1: the call does not reject, returns no list from
\* path i, and requests the next path or, after the last, returns the seed set.
C21_DecodeFailureAdvances ==
    DecodeFailure =>
        /\ settled # "rejected"
        /\ outcomes[Len(outcomes)] \in {"parse", "shape"}
        /\ source # "path"
        /\ RespondedPath + 1 < Len(corsProxies) =>
              /\ pc = "fetch" /\ result = None
              /\ Len(requests) = RespondedPath + 2
        /\ RespondedPath + 1 = Len(corsProxies) =>
              /\ pc = "done" /\ source = "exhausted" /\ IsSeedSet(Get(result))

\* the requests that were issued and whose attempt has not ended yet
InFlight == Len(requests) - Len(outcomes)

\* C22: within one call the attempts are strictly sequential and never
\* retried: at most one request is in flight at any moment (exactly one while
\* the call waits), the request to path k + 1 is issued only after the attempt
\* on path k has ended as failed, and no path is requested twice.
C22_SequentialNoRetry ==
    /\ InFlight \in {0, 1}
    /\ (InFlight = 1) <=> (pc \in {"fetch", "json"})
    /\ \A k \in 2..Len(requests) :
          /\ k - 1 <= Len(outcomes)
          /\ outcomes[k - 1] # "ok"
    /\ \A j \in 1..Len(requests), k \in 1..Len(requests) :
          requests[j].proxy = requests[k].proxy => j = k

\* C22 witness: the call waits on its third request, the only one in flight,
\* after a parse failure and a provider error.
C22_Witness ==
    /\ pc = "json" /\ outcomes = <<"parse", "status">>
    /\ Len(requests) = 3 /\ InFlight = 1 /\ settled = "pending"

\* the state of the discovery state machine a call is in.  FilterNormalize and
\* Exhausted are passed within one piece of synchronous code (lines 268-275,
\* 284-287), and a call without a key passes through Fetching without a
\* request (lines 183-192).
Phase ==
    IF pc = "idle" THEN "Idle"
    ELSE IF pc \in {"fetch", "json"} THEN "Fetching"
    ELSE IF pc = "done" /\ settled = "resolved" /\ source = "path" THEN "Done"
    ELSE IF pc = "done" /\ settled = "resolved" /\ source \in {"nokey", "exhausted"}
    THEN "FallbackDone"
    ELSE "none"

\* Done carries places of the payload of the last path, FallbackDone the seed
\* set, and FallbackDone has one of its two causes
PhaseResult ==
    /\ Phase \in {"Idle", "Fetching", "Done", "FallbackDone"}
    /\ Phase \in {"Idle", "Fetching"} => (settled = "pending" /\ result = None)
    /\ Phase = "Done" =>
          /\ CarriesOkPayload /\ IsSome(OkPayload.results)
          /\ \A k \in 1..Len(Get(result)) :
                \E c \in 1..Len(Get(OkPayload.results)) :
                    Get(result)[k].id = Get(OkPayload.results)[c].place_id
    /\ Phase = "FallbackDone" =>
          /\ IsSeedSet(Get(result))
          /\ \/ (~KeyConfigured(apiKey) /\ requests = <<>>)
             \/ (Len(outcomes) = Len(corsProxies)
                   /\ \A k \in 1..Len(outcomes) : outcomes[k] # "ok")

\* the transitions of the state machine
PhaseStep ==
    \/ Phase = "Idle" /\ Phase' = "Fetching" /\ KeyConfigured(apiKey)
    \/ Phase = "Idle" /\ Phase' = "FallbackDone" /\ ~KeyConfigured(apiKey)
    \/ Phase = "Fetching" /\ Phase' \in {"Fetching", "Done", "FallbackDone"}

\* C23: every call follows Idle -> Fetching -> (Done | FallbackDone) and,
\* every request eventually completing or failing, terminates: it eventually
\* reaches exactly one of Done (places of a provider payload) or FallbackDone
\* (the seed set), never leaves it, and reaches FallbackDone only without a
\* key or after all four paths failed.
C23_StateMachineTerminates ==
    /\ []PhaseResult
    /\ [][PhaseStep]_vars
    /\ <>[](Phase \in {"Done", "FallbackDone"})

\* C23 witness: FallbackDone after two malformed payloads, an HTTP failure and
\* a provider error.
C23_Witness ==
    /\ Phase = "FallbackDone" /\ outcomes = <<"shape", "shape", "http", "status">>
    /\ Len(Get(result)) = 5

\* C29: on a successful path the returned list has exactly one place per
\* candidate of the payload that passes the relevance filter, in the
\* provider's order: none is duplicated, merged, reordered or dropped, and
\* place k has the id, the name and the coordinates of the k-th relevant
\* candidate.
C29_OnePlacePerRelevantCandidate ==
    source = "path" =>
        LET relevant == SelectSeq(Get(OkPayload.results), Relevant)
        IN  /\ Len(Get(result)) = Len(relevant)
            /\ \A k \in 1..Len(relevant) :
                  /\ Get(result)[k].id = relevant[k].place_id
                  /\ Get(result)[k].name = relevant[k].name
                  /\ Get(result)[k].latitude = Get(relevant[k].geometry).lat
                  /\ Get(result)[k].longitude = Get(relevant[k].geometry).lng

\* C29 witness: the second path delivered the temple twice; both places are
\* returned.
C29_Witness ==
    /\ source = "path" /\ RespondedPath = 1
    /\ response.results = Some(<<placeTemple, placeTemple>>)
    /\ Len(Get(result)) = 2
    /\ Get(result)[1].id = "ChIJ-temple" /\ Get(result)[2].id = "ChIJ-temple"

\* the ids of the candidates of a payload
CandidateIds(payload) ==
    IF IsSome(payload.results)
    THEN { Get(payload.results)[k].place_id : k \in 1..Len(Get(payload.results)) }
    ELSE {}

\* C30: the result of a call comes from a single source: it is made of
\* places of the payload of the one path that succeeded, the last one
\* requested, or it is the seed set; a failed path leaves nothing behind (no
\* result exists before the call ends), and seed places and provider places
\* never stand in one list.
C30_SingleSource ==
    /\ pc # "done" => result = None
    /\ pc = "done" =>
          /\ source \in {"path", "nokey", "exhausted"}
          /\ source = "path" =>
                /\ outcomes[Len(outcomes)] = "ok" /\ Len(requests) = Len(outcomes)
                /\ \A k \in 1..Len(Get(result)) :
                      /\ Get(result)[k].id \in CandidateIds(OkPayload)
                      /\ Get(result)[k].id \notin Range(SeedIds)
          /\ source # "path" =>
                /\ Len(Get(result)) = Len(SeedIds)
                /\ \A k \in 1..Len(Get(result)) :
                      /\ Get(result)[k].id = SeedIds[k]
                      /\ Get(result)[k].id \notin
                            UNION { CandidateIds(b) : b \in DataBodies }

\* C30 witness: the third path failed with UNKNOWN_ERROR around a Charminar
\* candidate, the fourth delivered the temple; only the temple is returned.
C30_Witness ==
    /\ pc = "done" /\ source = "path"
    /\ outcomes = <<"wrapper", "parse", "status", "ok">>
    /\ logs[3].values = <<"UNKNOWN_ERROR">>
    /\ response.results = Some(<<placeTemple>>)
    /\ Len(Get(result)) = 1 /\ Get(result)[1].id = "ChIJ-temple"

(***************************************************************************)
(* Claims about filterHistoricPlaces (SpecFilter)                           *)
(***************************************************************************)
\* C7: a candidate is kept by the relevance filter if and only if its types
\* intersect the allow-list of 5 tags or its lower-cased name or lower-cased
\* vicinity contains one of the 16 heritage keywords; two candidates that
\* agree on types, name and vicinity get the same decision whatever their
\* formatted_address, rating and other fields are.
C7_FilterDecision ==
    fpc = "filtered" =>
        /\ Cardinality(HeritageKeywords) = 16
        /\ kept = SelectSeq(places, Relevant)
        /\ \A a \in 1..Len(places), b \in 1..Len(places) :
              SameDecidingFields(places[a], places[b]) =>
                  ((places[a] \in Range(kept)) <=> (places[b] \in Range(kept)))

\* C7 witness: of two candidates that differ in formatted_address, with a
\* keyword only in the address of one, none is kept, next to a list where one
\* of two candidates is kept.
C7_Witness ==
    /\ fpc = "filtered" /\ Len(places) = 2 /\ kept = <<>>
    /\ SameDecidingFields(places[1], places[2])
    /\ IsSome(places[1].formatted_address) /\ ~IsSome(places[2].formatted_address)

\* C8 as stated: relevance is invariant under every change of the letter case
\* of name or vicinity (the list kept after the case change is the list kept
\* before it, with the same case change applied).
C8_CaseInvariantAnyLetter ==
    fpc = "recased" => kept = RecasedList(recase[1], recase[2], keptBefore)

\* C8 amended: relevance is invariant under changes of the case of the ASCII
\* letters A-Z, a-z of name or vicinity.
C8_CaseInvariantAscii ==
    (fpc = "recased" /\ recase[1] \in AsciiCaseOps)
        => kept = RecasedList(recase[1], recase[2], keptBefore)

\* C8 witness: a candidate kept only for a keyword in its name is still kept
\* after the ASCII case of that name was changed.
C8_Witness ==
    /\ fpc = "recased" /\ recase[1] \in AsciiCaseOps /\ Len(kept) = 1
    /\ ~hasHistoricType(kept[1])
    /\ kept[1].name # keptBefore[1].name

(***************************************************************************)
(* Claims about the distance label (SpecFormat)                            *)
(***************************************************************************)
\* C9: the distance label has its boundary at exactly 1000 m: 1000 renders
\* as "1000m" and 1001 as "1.0km"; every distance d <= 1000 renders as the
\* whole number d with suffix m, every d > 1000 as the tenth of a kilometer
\* nearest to d / 1000, written with exactly one fractional digit and suffix km.
C9_FormatBoundary ==
    gpc = "formatted" =>
        /\ (meters = 1000 => label = "1000m")
        /\ (meters = 1001 => label = "1.0km")
        /\ (meters <= 1000 => label = ToString(meters) \o "m")
        /\ (meters > 1000 =>
              \E w \in {meters \div 1000, meters \div 1000 + 1}, f \in 0..9 :
                  /\ label = ToString(w) \o "." \o ToString(f) \o "km"
                  /\ 100 * (10 * w + f) - meters \in -50..50)

\* C9 witness: 1001 m was rendered.
C9_Witness == gpc = "formatted" /\ meters = 1001 /\ label = "1.0km"

(***************************************************************************)
(* Claims about calculateDistance (SpecGeo)                                *)
(***************************************************************************)
\* C10: calculateDistance is symmetric: the rounded meter distance from a to
\* b equals the rounded meter distance from b to a, and is a number.
C10_DistanceSymmetric ==
    gpc # "input" => (dAB = dBA /\ dAB # NaN)

\* C10 witness: two coordinates that differ in latitude and in longitude
\* were measured in both directions.
C10_Witness ==
    /\ gpc = "measured" /\ pA[1] # pB[1] /\ pA[2] # pB[2]
    /\ dAB > 1000 /\ dBA > 1000

\* C11: for every coordinate c the distance from c to itself is 0 meters, and
\* the label of that distance (the label of a candidate located exactly at
\* the requester coordinate) is "0m".
C11_ZeroAtSelf ==
    (gpc # "input" /\ pA = pB) =>
        /\ dAB = 0 /\ dBA = 0
        /\ gpc = "formatted" => (meters = 0 /\ label = "0m")

\* C11 witness: the anchor (17.3850, 78.4867) measured against itself and
\* labelled.
C11_Witness ==
    /\ gpc = "formatted" /\ pA = <<173850, 784867>> /\ pB = pA /\ label = "0m"

(***************************************************************************)
(* Claims about convertGooglePlaceToLocation (SpecConvert)                  *)
(***************************************************************************)
WorshipImage == "https://images.unsplash.com/photo-1583224964938-0c17db9e623a?w=400&h=300&fit=crop"
WorshipSentence == " is a sacred place of worship with rich cultural and spiritual significance. "

IsWorshipSite(c) ==
    IsSome(c.types)
        /\ Range(Get(c.types)) \cap {"place_of_worship", "hindu_temple"} # {}
HasPhotoReference(c) == IsSome(c.photos) /\ Len(Get(c.photos)) > 0
HasTag(c, tags) == IsSome(c.types) /\ Range(Get(c.types)) \cap tags # {}

\* words of rating and status text: the phrases the earlier variant put into
\* the description (lines 502-517) and the raw status values
RatingStatusWords ==
    { <<"r","a","t","e","d">>, <<"r","a","t","i","n","g">>, <<"/","5">>,
      <<"s","t","a","t","u","s">>, <<"o","p","e","r","a","t","i","o","n","a","l">>,
      <<"c","l","o","s","e","d">>, <<"o","p","e","n"," ","n","o","w">>,
      <<"c","u","r","r","e","n","t","l","y"," ","o","p","e","n">> }
\* the word stands somewhere in the text
Holds(text, w) ==
    \E k \in 0..(Len(text) - Len(w)) : \A j \in 1..Len(w) : text[k + j] = w[j]
NoRatingStatusText(d) ==
    LET text == toLowerCase(descriptionText(d))
    IN  \A w \in RatingStatusWords : ~Holds(text, w)

\* C12 as stated: every candidate with a worship-site tag and no photo
\* reference gets the worship-site fallback image and the worship-themed
\* sentence, and its description holds no rating or status text.
C12_WorshipSiteAnyTypes ==
    (cpc \in {"converted", "compared"} /\ IsWorshipSite(candidate)
        /\ ~HasPhotoReference(candidate)) =>
        /\ Get(converted).imageUrl = WorshipImage
        /\ Get(converted).description[2] = Lit(WorshipSentence)
        /\ NoRatingStatusText(Get(converted).description)

\* C12 amended: a candidate with a worship-site tag and no photo reference
\* gets the worship-site fallback image unless its types hold museum, and the
\* worship-themed sentence unless its types hold tourist_attraction or
\* museum (those tags are tested first); its description holds no rating or
\* status text in any case.
C12_WorshipSite ==
    (cpc \in {"converted", "compared"} /\ IsWorshipSite(candidate)
        /\ ~HasPhotoReference(candidate)) =>
        /\ ~HasTag(candidate, {"museum"})
              => Get(converted).imageUrl = WorshipImage
        /\ ~HasTag(candidate, {"tourist_attraction", "museum"})
              => Get(converted).description[2] = Lit(WorshipSentence)
        /\ NoRatingStatusText(Get(converted).description)

\* C12 witness: a hindu_temple without photos and without the attraction or
\* museum tag was converted with a key configured.
C12_Witness ==
    /\ cpc = "converted" /\ KeyConfigured(apiKey)
    /\ candidate.types = Some(<<"hindu_temple">>) /\ candidate.photos = Some(<<>>)
    /\ Get(converted).imageUrl = WorshipImage
    /\ Get(converted).description[2] = Lit(WorshipSentence)

\* the type tags in their raw form
RawTypeTags ==
    { <<"t","o","u","r","i","s","t","_">>, <<"_","o","f","_">>, <<"h","i","n","d","u","_">>,
      <<"_","l","a","n","d","m","a","r","k">>, <<"p","o","i","n","t","_">>,
      <<"_","c","e","n","t","e","r">> }
NoRawTypeTags(d) ==
    LET text == toLowerCase(descriptionText(d))
    IN  \A w \in RawTypeTags : ~Holds(text, w)

\* two candidates that differ at most in rating, user_ratings_total,
\* business_status, opening_hours and photos
SameDescribedFields(c, d) ==
    /\ c.name = d.name /\ c.types = d.types
    /\ c.vicinity = d.vicinity /\ c.formatted_address = d.formatted_address

\* C14: the description of a returned place, normalized or seed, carries no
\* rating, rating-count, business-status, open-now or raw type-tag text; and
\* two candidates that differ only in rating, user_ratings_total,
\* business_status, opening_hours or photos get the same description.
C14_DescriptionExcludesMetadata ==
    /\ cpc # "input" =>
          /\ NoRatingStatusText(Get(converted).description)
          /\ NoRawTypeTags(Get(converted).description)
    /\ (cpc = "compared" /\ SameDescribedFields(candidate, twin)) =>
          Get(converted).description = Get(convertedTwin).description

\* C14 witness: a candidate without metadata and its twin with a rating, a
\* status and a photo were both converted; their images differ, their
\* descriptions do not.
C14_Witness ==
    /\ cpc = "compared" /\ KeyConfigured(apiKey)
    /\ ~IsSome(candidate.rating) /\ IsSome(twin.rating)
    /\ IsSome(twin.business_status) /\ HasPhotoReference(twin)
    /\ Get(converted).imageUrl # Get(convertedTwin).imageUrl
    /\ Get(converted).description = Get(convertedTwin).description

\* the opening sentence by first match on the type tags
OpeningSentence(c) ==
    IF HasTag(c, {"tourist_attraction", "museum"})
    THEN " is a renowned heritage site and tourist destination. "
    ELSE IF HasTag(c, {"place_of_worship", "hindu_temple"})
    THEN WorshipSentence
    ELSE IF HasTag(c, {"historical_landmark"})
    THEN " is a historical landmark that showcases the architectural heritage and cultural legacy of the region. "
    ELSE " is a significant heritage site that represents the cultural and historical importance of this area. "

\* the positions of the commas of a text, and the second-to-last
\* comma-separated segment of a text with at least one comma, without the
\* spaces around it
Commas(t) == { k \in 1..Len(t) : t[k] = "," }
Largest(S) == CHOOSE k \in S : \A j \in S : j <= k
SecondToLastSegment(t) ==
    LET to == Largest(Commas(t))
        from == IF Commas(t) \ {to} = {} THEN 0 ELSE Largest(Commas(t) \ {to})
        nonSpace == { k \in (from + 1)..(to - 1) : t[k] # " " }
    IN  IF nonSpace = {} THEN <<>>
        ELSE LET first == CHOOSE k \in nonSpace : \A j \in nonSpace : k <= j
             IN  [k \in 1..(Largest(nonSpace) - first + 1) |-> t[first + k - 1]]

\* the location clause from the address, and the whole description around a
\* given choice between vicinity and address
AddressClause(c) ==
    IF IsSome(c.formatted_address) /\ Commas(Get(c.formatted_address)) # {}
    THEN <<Lit("Located in "), Txt(SecondToLastSegment(Get(c.formatted_address))), Lit(", ")>>
    ELSE <<>>
DescriptionWith(c, byVicinity) ==
    <<Txt(c.name), Lit(OpeningSentence(c))>>
        \o (IF byVicinity
            THEN <<Lit("Located in "), Txt(Get(c.vicinity)), Lit(", ")>>
            ELSE AddressClause(c))
        \o <<Lit("this site offers visitors a glimpse into the rich history and cultural traditions that have shaped this region over centuries.")>>

\* C24 as stated: the opening sentence is chosen by first match
\* (tourist_attraction or museum; place_of_worship or hindu_temple;
\* historical_landmark; generic), followed by a location clause from vicinity
\* when vicinity is present, else from the second-to-last comma-separated
\* segment of formatted_address when it has more than one segment, else none.
C24_DescriptionVicinityPresent ==
    cpc \in {"converted", "compared"} =>
        Get(converted).description = DescriptionWith(candidate, IsSome(candidate.vicinity))

\* C24 amended: as stated, with the location clause built from vicinity only
\* when vicinity is present and not the empty string; an empty vicinity
\* counts as absent.
C24_DescriptionFirstMatch ==
    cpc \in {"converted", "compared"} =>
        Get(converted).description =
            DescriptionWith(candidate, IsSome(candidate.vicinity)
                                           /\ Get(candidate.vicinity) # <<>>)

\* C24 witness: a landmark that is also a worship site, with an empty vicinity
\* and the address "12 Main Rd, Old City ,Hyderabad": the worship sentence,
\* then "Located in Old City, ".
C24_Witness ==
    /\ cpc = "converted"
    /\ candidate.types = Some(<<"historical_landmark", "place_of_worship">>)
    /\ candidate.vicinity = Some(<<>>) /\ candidate.formatted_address = Some(txtThreeParts)
    /\ Get(converted).description[2] = Lit(WorshipSentence)
    /\ Get(converted).description[4] = Txt(<<"O","l","d"," ","C","i","t","y">>)

MuseumImage == "https://images.unsplash.com/photo-1578495555443-d134c52754e7?w=400&h=300&fit=crop"
LandmarkImage == "https://images.unsplash.com/photo-1566127952889-bf906f4e4c5d?w=400&h=300&fit=crop"
PalaceImage == "https://images.unsplash.com/photo-1545042746-d0a8b69e5e22?w=400&h=300&fit=crop"
CharminarImage == "https://images.unsplash.com/photo-1564507592333-c60657eea523?w=400&h=300&fit=crop"
DefaultImage == "https://images.unsplash.com/photo-1578662996442-48f60103fc96?w=400&h=300&fit=crop"

\* the name holds the word, in any case of its letters
NameHolds(c, w) == Holds([k \in 1..Len(c.name) |-> asciiLowerChar(c.name[k])], w)

\* the static image by first match, `fort` being what stands for a fort
StaticImage(c, fort) ==
    IF HasTag(c, {"museum"}) THEN MuseumImage
    ELSE IF IsWorshipSite(c) THEN WorshipImage
    ELSE IF HasTag(c, {"historical_landmark"}) THEN LandmarkImage
    ELSE IF fort THEN LandmarkImage
    ELSE IF NameHolds(c, <<"p","a","l","a","c","e">>) THEN PalaceImage
    ELSE IF NameHolds(c, <<"c","h","a","r","m","i","n","a","r">>) THEN CharminarImage
    ELSE DefaultImage

\* the static image is used: no usable photo reference, or no key
UsesStaticImage(c) == ~HasPhotoReference(c) \/ apiKey \in {None, Some("")}

\* C25 as stated: without a usable photo reference or without a key the image
\* is chosen by first match in the order type tag museum, worship type tag,
\* landmark type tag, fort type tag, name containing "palace", name containing
\* "charminar", default; identical input yields the identical image.
C25_ImageByFortTag ==
    /\ (cpc \in {"converted", "compared"} /\ UsesStaticImage(candidate)) =>
          Get(converted).imageUrl = StaticImage(candidate, HasTag(candidate, {"fort"}))
    /\ (cpc = "compared" /\ UsesStaticImage(candidate) /\ UsesStaticImage(twin)) =>
          Get(convertedTwin).imageUrl = Get(converted).imageUrl

\* C25 amended: as stated, with "name containing fort" in the place of "fort
\* type tag": the fort image (the landmark image) is chosen by the name.
C25_ImageFirstMatch ==
    /\ (cpc \in {"converted", "compared"} /\ UsesStaticImage(candidate)) =>
          Get(converted).imageUrl =
              StaticImage(candidate, NameHolds(candidate, <<"f","o","r","t">>))
    /\ (cpc = "compared" /\ UsesStaticImage(candidate) /\ UsesStaticImage(twin)) =>
          Get(convertedTwin).imageUrl = Get(converted).imageUrl

\* C25 witness: "Old FORT", tagged park, with photo references but no key,
\* gets the landmark image, and so does its twin without photos.
C25_Witness ==
    /\ cpc = "compared" /\ apiKey = Some("")
    /\ candidate.name = txtOldFort /\ candidate.types = Some(<<"park">>)
    /\ HasPhotoReference(candidate) /\ ~HasPhotoReference(twin)
    /\ Get(converted).imageUrl = LandmarkImage
    /\ Get(convertedTwin).imageUrl = LandmarkImage

StaticImages ==
    {MuseumImage, WorshipImage, LandmarkImage, PalaceImage, CharminarImage, DefaultImage}

\* <provider photo endpoint>?maxwidth=400&photoreference=<ref>&key=<key>
PhotoFetchUrl(ref, key) ==
    "https://maps.googleapis.com/maps/api/place/photo" \o "?maxwidth=400"
        \o "&photoreference=" \o ref \o "&key=" \o key

\* the image of a converted candidate, the photo URL being given a prefix
ImageRule(prefix) ==
    cpc \in {"converted", "compared"} =>
        /\ Get(converted).imageUrl # ""
        /\ IF HasPhotoReference(candidate) /\ apiKey \notin {None, Some("")}
           THEN Get(converted).imageUrl
                    = prefix \o PhotoFetchUrl(Get(candidate.photos)[1], Get(apiKey))
           ELSE Get(converted).imageUrl \in StaticImages

CopiedThrough(c, p) ==
    /\ p.latitude = Get(c.geometry).lat /\ p.longitude = Get(c.geometry).lng
    /\ p.category = "heritage"
    /\ DOMAIN p.googlePlacesData =
          {"rating", "userRatingsTotal", "businessStatus", "openNow", "types",
           "formattedAddress", "vicinity"}
    /\ p.googlePlacesData.rating = c.rating
    /\ p.googlePlacesData.userRatingsTotal = c.user_ratings_total
    /\ p.googlePlacesData.businessStatus = c.business_status
    /\ p.googlePlacesData.openNow = c.opening_hours
    /\ p.googlePlacesData.types = c.types
    /\ p.googlePlacesData.formattedAddress = c.formatted_address
    /\ p.googlePlacesData.vicinity = c.vicinity

SeedLabels == << "1.2km", "2.1km", "800m", "1.8km", "2.5km" >>
WithoutCoordinates(place) == [place EXCEPT !.latitude = 0, !.longitude = 0]

\* C16: getFallbackHistoricPlaces is pure and deterministic: calls with the
\* same anchor return equal lists whatever was called before; every call
\* returns 5 entries whose ids, names, descriptions, images, distance labels
\* and metadata are the same for every anchor; only latitude and longitude
\* vary, being the anchor plus the fixed deltas.
C16_SeedsPure ==
    \A j \in 1..Len(seeds), k \in 1..Len(seeds) :
        /\ seedCalls[j] = seedCalls[k] => seeds[j] = seeds[k]
        /\ Len(seeds[k]) = 5
        /\ \A n \in 1..5 :
              /\ WithoutCoordinates(seeds[j][n]) = WithoutCoordinates(seeds[k][n])
              /\ seeds[k][n].id = SeedIds[n]
              /\ seeds[k][n].distance = SeedLabels[n]
              /\ seeds[k][n].latitude = seedCalls[k][1] + SeedDeltas[n][1]
              /\ seeds[k][n].longitude = seedCalls[k][2] + SeedDeltas[n][2]

\* C16 witness: two calls with different anchors returned lists that differ,
\* and differ in coordinates only.
C16_Witness ==
    /\ Len(seeds) = 2 /\ seedCalls[1] = <<173850, 784867>> /\ seedCalls[2] = <<0, 0>>
    /\ seeds[1] # seeds[2]
    /\ \A n \in 1..5 : WithoutCoordinates(seeds[1][n]) = WithoutCoordinates(seeds[2][n])

(***************************************************************************)
(* Claims about HomeScreen (SpecHome)                                       *)
(***************************************************************************)
PendingLoads == { k \in 1..Len(loads) : loads[k].state = "pending" }

\* C28: at most one discovery call is in flight at a time: HomeScreen starts
\* no second loadHistoricPlaces while an earlier one is pending, so the places
\* shown after loading belong to the most recent user location, and
\* loadingPlaces is true exactly while a call is pending.
C28_OneLoadInFlight ==
    /\ Cardinality(PendingLoads) <= 1
    /\ (shown # 0 /\ ~loadingPlaces) => shown = Get(userLocation).fix
    /\ loadingPlaces <=> (PendingLoads # {})

(***************************************************************************)
(* Claims about two discovery calls in flight (SpecTwo)                     *)
(***************************************************************************)
IdsOf(list) == [k \in 1..Len(list) |-> list[k].id]

\* what a call has done follows from its own coordinate and the provider alone
OwnRequestsOnly(frame) ==
    /\ \A k \in 1..Len(frame.requests) :
          /\ frame.requests[k].proxy = corsProxies[k]
          /\ frame.requests[k].location = <<frame.latitude, frame.longitude>>
    /\ Len(frame.outcomes) <= Len(frame.requests)
    /\ \A k \in 1..Len(frame.outcomes) :
          (frame.outcomes[k] = "transport") <=> (provider[k].fetch = "reject")
    /\ frame.pc = "done" => frame.settled = "resolved"

\* C17: discovery calls are independent: however the steps of two calls
\* interleave, each call requests the paths in order for its own coordinate,
\* and once both have ended, with the same provider data, they went through
\* the same path outcomes and return the same places; with the same
\* coordinate, they return equal lists.
C17_CallsIndependent ==
    /\ OwnRequestsOnly(RunningFrame) /\ OwnRequestsOnly(parked)
    /\ (pc = "done" /\ parked.pc = "done") =>
          /\ outcomes = parked.outcomes /\ source = parked.source
          /\ IdsOf(Get(result)) = IdsOf(Get(parked.result))
          /\ (latitude = parked.latitude /\ longitude = parked.longitude)
                => result = parked.result

\* C17 witness: both calls are done, each ended on the fourth path after
\* three failed ones, at the same latitude, with equal one-place lists.
C17_Witness ==
    /\ pc = "done" /\ parked.pc = "done" /\ current = 1
    /\ Len(outcomes) = 4 /\ outcomes[4] = "ok"
    /\ latitude = parked.latitude /\ result = parked.result /\ Len(Get(result)) = 1

====
